---- MODULE Spec2Model ----
(***************************************************************************)
(* A model of the ASML command interpreter (CI_Lab): the parser            *)
(* (src/src/ci/parser.c), the label map (src/src/ci/label_map.c) and the   *)
(* interpreter loop (src/unnamed/part_000).                                *)
(*                                                                         *)
(* A 64-bit value is held as its byte image: a tuple of 8 bytes, least     *)
(* significant first (the reference target is little-endian).  All         *)
(* arithmetic is done on byte images, so the 64-bit width is kept.         *)
(* A string (a lexeme, a label name, a PUT payload) is a tuple of          *)
(* one-character strings.  A pointer to a command is its index in the      *)
(* heap cmds, 0 being NULL.                                                *)
(***************************************************************************)
EXTENDS Integers, Sequences, FiniteSets, TLC

VARIABLES
    toks,         \* the token stream the lexer yields (ends with TOK_EOF)
    phase,        \* where the pipeline stands
    pos,          \* parser->current is TokAt(pos), parser->next is TokAt(pos+1)
    p_had_error,  \* parser->had_error
    label_map,    \* LabelMap.entries: bucket -> chain of [id, command]
    cmds,         \* the heap of Command records, by pointer
    freed,        \* the commands free() was called on
    decls,        \* history: the labels put_label registered, in order
    command_ptr,  \* parse_commands: the last command linked
    ret_cmd,      \* parse_commands: the head of the sequence
    i_had_error,  \* intr->had_error
    is_greater, is_equal, is_less,   \* the comparison flags
    variables,    \* intr->variables: 0..31 -> 64-bit byte image
    the_stack,    \* intr->the_stack: the linked list, head first
    current,      \* interpret: the command about to execute
    mem,          \* the byte memory
    output,       \* the bytes written to stdout
    str_freed,    \* the PUT commands whose string payload was freed
    calls,        \* history: the CALLs that have not returned yet
    st_freed,     \* history: how often free() was called on each StackEntry
    nsteps,       \* history: the number of commands executed
    prev          \* history: the command executed last

vars == <<toks, phase, pos, p_had_error, label_map, cmds, freed, decls,
          command_ptr, ret_cmd, i_had_error, is_greater, is_equal, is_less,
          variables, the_stack, current, mem, output, str_freed, calls, st_freed,
          nsteps,
          prev>>

parser_vars == <<toks, pos, p_had_error, label_map, cmds, freed, decls,
                 command_ptr, ret_cmd>>

(***************************************************************************)
(* Bounds of the model and constants of the program.                       *)
(***************************************************************************)
\* the longest generated program, in lines
MaxLines == 2
\* the most commands one run executes
MaxSteps == 12
\* the size of the byte memory, in bytes
MemSize == 12
\* the number of buckets the label map is constructed with
Capacity == 4
NUM_VARIABLES == 32

NULL == 0
\* the NULL string pointer (no string is this tuple: characters are single)
NullStr == <<"NULL">>

(***************************************************************************)
(* 64-bit values as byte images.                                           *)
(***************************************************************************)
Byte == 0..255
Idx8 == 1..8
Zero64 == <<0, 0, 0, 0, 0, 0, 0, 0>>
LLONG_MAX == <<255, 255, 255, 255, 255, 255, 255, 127>>

\* the byte image whose byte i is F(i)
Image(F(_)) == <<F(1), F(2), F(3), F(4), F(5), F(6), F(7), F(8)>>

\* the byte image of a small natural number (n < 2^24)
FromNat(n) == <<n % 256, (n \div 256) % 256, (n \div 65536) % 256, 0, 0, 0, 0, 0>>

\* a value read as an unsigned long, where it is below 2^16; Huge (beyond every
\* memory size of the model) otherwise
Huge == 256 * 256 * 4
ToNat(w) == IF \A i \in 3..8 : w[i] = 0 THEN w[1] + 256 * w[2] ELSE Huge

\* a + b modulo 2^64
AddW(a, b) ==
    LET c[i \in 0..8] == IF i = 0 THEN 0 ELSE (a[i] + b[i] + c[i - 1]) \div 256
        r(i) == (a[i] + b[i] + c[i - 1]) % 256
    IN  Image(r)

NotW(a) == LET r(i) == 255 - a[i] IN Image(r)
NegW(a) == AddW(NotW(a), FromNat(1))
\* a - b modulo 2^64
SubW(a, b) == AddW(a, NegW(b))

IsNegW(a) == a[8] >= 128

\* a comparison that reads the two values as signed
CmpUSigned(a, b) ==
    LET flip(w) == [w EXCEPT ![8] = (@ + 128) % 256]
        d == {i \in Idx8 : a[i] # b[i]}
    IN  IF d = {} THEN 0
        ELSE LET m == CHOOSE i \in d : \A j \in d : j <= i
             IN  IF flip(a)[m] > flip(b)[m] THEN 1 ELSE -1

\* the comparison of two unsigned 64-bit values: -1, 0 or 1
CmpU(a, b) ==
    LET d == {i \in Idx8 : a[i] # b[i]}
    IN  IF d = {} THEN 0
        ELSE LET m == CHOOSE i \in d : \A j \in d : j <= i
             IN  IF a[m] > b[m] THEN 1 ELSE -1

\* the comparison of two signed 64-bit values: -1, 0 or 1
CmpS(a, b) ==
    IF IsNegW(a) # IsNegW(b) THEN (IF IsNegW(a) THEN -1 ELSE 1)
    ELSE CmpU(a, b)

\* bit k (0..63) of a value
BitW(a, k) == (a[(k \div 8) + 1] \div (2 ^ (k % 8))) % 2

\* the value whose bit k is f[k]
FromBits(f) ==
    LET r(i) ==
        f[8 * (i - 1)] + 2 * f[8 * (i - 1) + 1] + 4 * f[8 * (i - 1) + 2]
        + 8 * f[8 * (i - 1) + 3] + 16 * f[8 * (i - 1) + 4]
        + 32 * f[8 * (i - 1) + 5] + 64 * f[8 * (i - 1) + 6]
        + 128 * f[8 * (i - 1) + 7]
    IN  Image(r)

AndW(a, b) == FromBits([k \in 0..63 |-> BitW(a, k) * BitW(b, k)])
OrW(a, b)  == FromBits([k \in 0..63 |->
                          IF BitW(a, k) + BitW(b, k) > 0 THEN 1 ELSE 0])
XorW(a, b) == FromBits([k \in 0..63 |-> (BitW(a, k) + BitW(b, k)) % 2])

\* shifts by 0 <= k <= 63
ShlW(a, k) == FromBits([j \in 0..63 |-> IF j >= k THEN BitW(a, j - k) ELSE 0])
ShrW(a, k) == FromBits([j \in 0..63 |-> IF j + k <= 63 THEN BitW(a, j + k) ELSE 0])
SarW(a, k) == FromBits([j \in 0..63 |->
                          IF j + k <= 63 THEN BitW(a, j + k) ELSE BitW(a, 63)])

(***************************************************************************)
(* Characters.                                                             *)
(***************************************************************************)
Lower == <<"a", "b", "c", "d", "e", "f", "g", "h", "i", "j", "k", "l", "m",
           "n", "o", "p", "q", "r", "s", "t", "u", "v", "w", "x", "y", "z">>
Digits == <<"0", "1", "2", "3", "4", "5", "6", "7", "8", "9">>

IsIn(c, s) == \E i \in 1..Len(s) : s[i] = c
IndexIn(c, s) == CHOOSE i \in 1..Len(s) : s[i] = c

\* the byte value of a character
Ord(c) == IF IsIn(c, Lower) THEN 96 + IndexIn(c, Lower)
          ELSE IF IsIn(c, Digits) THEN 47 + IndexIn(c, Digits)
          ELSE IF c = "_" THEN 95
          ELSE IF c = " " THEN 32
          ELSE IF c = ":" THEN 58
          ELSE IF c = "\n" THEN 10
          ELSE IF c = "L" THEN 76
          ELSE IF c = "-" THEN 45
          ELSE 63

\* the value of a digit in a base, -1 when it is none
DigitVal(c, base) ==
    LET v == IF IsIn(c, Digits) THEN IndexIn(c, Digits) - 1
             ELSE IF IsIn(c, SubSeq(Lower, 1, 6)) THEN 9 + IndexIn(c, Lower)
             ELSE -1
    IN  IF v < base THEN v ELSE -1

(***************************************************************************)
(* Tokens.  The lexer is not part of the sources: a token is its type and  *)
(* its lexeme, as the parser reads them.                                   *)
(***************************************************************************)
Tok(t, l) == [type |-> t, lexeme |-> l]
Ident(l)  == Tok("TOK_IDENT", l)
Num(l)    == Tok("TOK_NUM", l)
Str(l)    == Tok("TOK_STR", l)
TNL       == Tok("TOK_NL", <<"\n">>)
TCOLON    == Tok("TOK_COLON", <<":">>)
TEOF      == Tok("TOK_EOF", <<>>)
TADD      == Tok("TOK_ADD", <<"a", "d", "d">>)
TSUB      == Tok("TOK_SUB", <<"s", "u", "b">>)
TMOV      == Tok("TOK_MOV", <<"m", "o", "v">>)
TCMP      == Tok("TOK_CMP", <<"c", "m", "p">>)
TCMP_U    == Tok("TOK_CMP_U", <<"c", "m", "p", "_", "u">>)
TAND      == Tok("TOK_AND", <<"a", "n", "d">>)
TEOR      == Tok("TOK_EOR", <<"e", "o", "r">>)
TASR      == Tok("TOK_ASR", <<"a", "s", "r">>)
TLSL      == Tok("TOK_LSL", <<"l", "s", "l">>)
TLSR      == Tok("TOK_LSR", <<"l", "s", "r">>)
TORR      == Tok("TOK_ORR", <<"o", "r", "r">>)
TSTORE    == Tok("TOK_STORE", <<"s", "t", "o", "r", "e">>)
TLOAD     == Tok("TOK_LOAD", <<"l", "o", "a", "d">>)
TPUT      == Tok("TOK_PUT", <<"p", "u", "t">>)
TPRINT    == Tok("TOK_PRINT", <<"p", "r", "i", "n", "t">>)
TBRANCH   == Tok("TOK_BRANCH", <<"b">>)
TBEQ      == Tok("TOK_BRANCH_EQ", <<"b", "e", "q">>)
TBNEQ     == Tok("TOK_BRANCH_NEQ", <<"b", "n", "e">>)
TBGT      == Tok("TOK_BRANCH_GT", <<"b", "g", "t">>)
TBGE      == Tok("TOK_BRANCH_GE", <<"b", "g", "e">>)
TBLT      == Tok("TOK_BRANCH_LT", <<"b", "l", "t">>)
TBLE      == Tok("TOK_BRANCH_LE", <<"b", "l", "e">>)
TCALL     == Tok("TOK_CALL", <<"c", "a", "l", "l">>)
TRET      == Tok("TOK_RET", <<"r", "e", "t">>)

\* the lexer yields TOK_EOF indefinitely at the end
TokAt(i) == IF i <= Len(toks) THEN toks[i] ELSE TEOF

(***************************************************************************)
(* Commands and the label map.                                             *)
(***************************************************************************)
\* an Operand (a union in the source: one of the three is in use)
NoOperand == [num_val |-> Zero64, str_val |-> NullStr, base |-> "0"]
NumOperand(w) == [NoOperand EXCEPT !.num_val = w]
StrOperand(s) == [NoOperand EXCEPT !.str_val = s]

create_command(type) ==
    [type |-> type, next |-> NULL,
     is_a_immediate |-> FALSE, is_a_string |-> FALSE,
     is_b_immediate |-> FALSE, is_b_string |-> FALSE,
     branch_condition |-> "BRANCH_NONE",
     destination |-> NoOperand, val_a |-> NoOperand, val_b |-> NoOperand]

\* label_map_init: every bucket holds one zeroed head entry
EmptyEntry == [id |-> NullStr, command |-> NULL]
label_map_init == [b \in 0..(Capacity - 1) |-> <<EmptyEntry>>]

RECURSIVE SumOrd(_)
SumOrd(s) == IF s = <<>> THEN 0 ELSE Ord(Head(s)) + SumOrd(Tail(s))

hash_function(s) == SumOrd(s)

\* an entry_init that links the new entry in front of the chain
entry_initAtHead(id, command, chain) ==
    IF chain[1].id = NullStr \/ chain[1].command = NULL
    THEN [chain EXCEPT ![1] = [id |-> id, command |-> command]]
    ELSE <<[id |-> id, command |-> command]>> \o chain

\* the chain of a bucket after entry_init(id, command, head of the chain)
entry_init(id, command, chain) ==
    IF chain[1].id = NullStr \/ chain[1].command = NULL
    THEN [chain EXCEPT ![1] = [id |-> id, command |-> command]]
    ELSE Append(chain, [id |-> id, command |-> command])

put_label(map, id, command) ==
    LET labelId == hash_function(id) % Capacity
    IN  [map EXCEPT ![labelId] = entry_init(id, command, map[labelId])]

\* get_label: the chain that starts at the head of the bucket
get_label(map, id) == map[hash_function(id) % Capacity]

(***************************************************************************)
(* The parser (parser.c).  A parser state ps holds the parser's fields and *)
(* the heap: [pos, had_error, label_map, cmds, freed, decls].              *)
(***************************************************************************)
Cur(ps) == TokAt(ps.pos)
Nxt(ps) == TokAt(ps.pos + 1)

is_at_end(ps) == Cur(ps).type = "TOK_EOF"

\* an advance that does not test whether the parser is at the end
advanceUnguarded(ps) == [ps EXCEPT !.pos = @ + 1]

\* advance: the parser state after it (the token it returns is Cur(ps))
advance(ps) == IF is_at_end(ps) THEN ps ELSE [ps EXCEPT !.pos = @ + 1]

consume(ps, type) ==
    IF Cur(ps).type = type THEN [ok |-> TRUE, ps |-> advance(ps)]
    ELSE [ok |-> FALSE, ps |-> ps]

consume_newline(ps) ==
    LET nl == consume(ps, "TOK_NL")
    IN  IF nl.ok THEN nl ELSE consume(ps, "TOK_EOF")

EndOfLine(ps) == Cur(ps).type \in {"TOK_NL", "TOK_EOF"}

is_variable(token) == Len(token.lexeme) >= 2 /\ token.lexeme[1] = "x"

is_base(token) ==
    Len(token.lexeme) = 1 /\ token.lexeme[1] \in {"d", "x", "s", "b"}

\* a * k + d modulo 2^64 (k <= 16), and whether it left 0..LLONG_MAX
MulAddW(a, k, d) ==
    LET c[i \in 0..8] == IF i = 0 THEN d ELSE (a[i] * k + c[i - 1]) \div 256
        r(i) == (a[i] * k + c[i - 1]) % 256
    IN  [val |-> Image(r), over |-> c[8] > 0 \/ r(8) >= 128]

RECURSIVE Accumulate(_, _, _, _, _)
\* the digits of s from position i on, added to the value val: the position
\* of the first character that is no digit, the value, and the overflow
Accumulate(s, base, i, val, over) ==
    IF i > Len(s) \/ DigitVal(s[i], base) < 0
    THEN [n |-> i - 1, val |-> val, over |-> over]
    ELSE LET m == MulAddW(val, base, DigitVal(s[i], base))
         IN  IF m.over
             THEN Accumulate(s, base, i + 1, m.val, TRUE)
             ELSE Accumulate(s, base, i + 1, m.val, over)

\* strtol / strtoll on a string without blanks or sign: the number of
\* characters converted and the value, LLONG_MAX on overflow
Strtoll(s, base) ==
    LET Clamped(r) == [n |-> r.n, val |-> IF r.over THEN LLONG_MAX ELSE r.val]
    IN  Clamped(Accumulate(s, base, 1, Zero64, FALSE))

\* a conversion of the register number that leaves out the test of its range
parse_variableAnyIndex(token) ==
    LET rest == SubSeq(token.lexeme, 2, Len(token.lexeme))
        Checked(r) == IF r.n # Len(rest)
                      THEN [ok |-> FALSE, val |-> Zero64]
                      ELSE [ok |-> TRUE, val |-> r.val]
    IN  Checked(Strtoll(rest, 10))

\* parse_variable: [ok, val], val the register number
parse_variable(token) ==
    LET rest == SubSeq(token.lexeme, 2, Len(token.lexeme))
        Checked(r) == IF r.n # Len(rest) \/ ToNat(r.val) > 31
                      THEN [ok |-> FALSE, val |-> Zero64]
                      ELSE [ok |-> TRUE, val |-> r.val]
    IN  Checked(Strtoll(rest, 10))

\* parse_number: [ok, val]
parse_number(token) ==
    LET l == token.lexeme
        base == IF Len(l) > 2 /\ l[1] = "0" /\ l[2] = "x" THEN 16
                ELSE IF Len(l) > 2 /\ l[1] = "0" /\ l[2] = "b" THEN 2
                ELSE 10
        rest == IF base = 10 THEN l ELSE SubSeq(l, 3, Len(l))
        Checked(r) == [ok |-> r.n = Len(rest), val |-> r.val]
    IN  Checked(Strtoll(rest, base))

\* The operand parsers give [ok, ps, op, imm]: whether the operand was parsed,
\* the parser after it, the operand written and the is_immediate flag written.
OperandFail(ps, op, imm) == [ok |-> FALSE, ps |-> ps, op |-> op, imm |-> imm]

parse_base(ps, op, imm) ==
    IF ~is_base(Cur(ps)) THEN OperandFail(ps, op, imm)
    ELSE [ok |-> TRUE, ps |-> advance(ps),
          op |-> [op EXCEPT !.base = Cur(ps).lexeme[1]], imm |-> imm]

\* the operand after a conversion n = [ok, val] of the current token
OperandOf(ps, op, n, immFail, immDone) ==
    IF ~n.ok THEN OperandFail(ps, op, immFail)
    ELSE [ok |-> TRUE, ps |-> advance(ps),
          op |-> [op EXCEPT !.num_val = n.val], imm |-> immDone]

parse_im(ps, op, imm) ==
    IF Cur(ps).type # "TOK_NUM" THEN OperandFail(ps, op, imm)
    ELSE OperandOf(ps, op, parse_number(Cur(ps)), imm, imm)

parse_variable_operand(ps, op, imm) ==
    IF ~is_variable(Cur(ps)) THEN OperandFail(ps, op, imm)
    ELSE OperandOf(ps, op, parse_variable(Cur(ps)), imm, imm)

parse_var_or_imm(ps, op, imm) ==
    IF Cur(ps).type = "TOK_NUM"
    THEN OperandOf(ps, op, parse_number(Cur(ps)), TRUE, TRUE)
    ELSE IF ~is_variable(Cur(ps)) THEN OperandFail(ps, op, imm)
    ELSE OperandOf(ps, op, parse_variable(Cur(ps)), imm, FALSE)

\* The operand shapes of parse_cmd's cases: which parser fills which slot.
\* p is "var" (parse_variable_operand), "im" (parse_im), "voi"
\* (parse_var_or_imm) or "base" (parse_base).
Slot(p, slot) == [p |-> p, slot |-> slot]
Shape(type) ==
    CASE type \in {"TOK_ADD", "TOK_SUB"} ->
           <<Slot("var", "destination"), Slot("var", "val_a"), Slot("voi", "val_b")>>
      [] type = "TOK_MOV" ->
           <<Slot("var", "destination"), Slot("im", "val_a")>>
      [] type \in {"TOK_CMP", "TOK_CMP_U"} ->
           <<Slot("var", "destination"), Slot("voi", "val_a")>>
      [] type \in {"TOK_AND", "TOK_EOR", "TOK_ORR"} ->
           <<Slot("var", "destination"), Slot("var", "val_a"), Slot("var", "val_b")>>
      [] type \in {"TOK_ASR", "TOK_LSL", "TOK_LSR"} ->
           <<Slot("var", "destination"), Slot("var", "val_a"), Slot("im", "val_b")>>
      [] type = "TOK_STORE" ->
           <<Slot("var", "destination"), Slot("voi", "val_a"), Slot("im", "val_b")>>
      [] type = "TOK_LOAD" ->
           <<Slot("var", "destination"), Slot("im", "val_a"), Slot("voi", "val_b")>>
      [] type = "TOK_PRINT" ->
           <<Slot("voi", "val_a"), Slot("base", "val_b")>>

ShapedTokens == {"TOK_ADD", "TOK_SUB", "TOK_MOV", "TOK_CMP", "TOK_CMP_U",
                 "TOK_AND", "TOK_EOR", "TOK_ORR", "TOK_ASR", "TOK_LSL",
                 "TOK_LSR", "TOK_STORE", "TOK_LOAD", "TOK_PRINT"}

\* the command type a mnemonic's case sets
CommandOf(type) ==
    CASE type = "TOK_ADD" -> "CMD_ADD"     [] type = "TOK_SUB" -> "CMD_SUB"
      [] type = "TOK_MOV" -> "CMD_MOV"     [] type = "TOK_CMP" -> "CMD_CMP"
      [] type = "TOK_CMP_U" -> "CMD_CMP_U" [] type = "TOK_AND" -> "CMD_AND"
      [] type = "TOK_EOR" -> "CMD_EOR"     [] type = "TOK_ORR" -> "CMD_ORR"
      [] type = "TOK_ASR" -> "CMD_ASR"     [] type = "TOK_LSL" -> "CMD_LSL"
      [] type = "TOK_LSR" -> "CMD_LSR"     [] type = "TOK_STORE" -> "CMD_STORE"
      [] type = "TOK_LOAD" -> "CMD_LOAD"   [] type = "TOK_PRINT" -> "CMD_PRINT"

BranchTokens == {"TOK_BRANCH", "TOK_BRANCH_EQ", "TOK_BRANCH_NEQ",
                 "TOK_BRANCH_GT", "TOK_BRANCH_GE", "TOK_BRANCH_LT",
                 "TOK_BRANCH_LE"}

ConditionOf(type) ==
    CASE type = "TOK_BRANCH" -> "BRANCH_NONE"
      [] type = "TOK_BRANCH_EQ" -> "BRANCH_EQUAL"
      [] type = "TOK_BRANCH_NEQ" -> "BRANCH_NOT_EQUAL"
      [] type = "TOK_BRANCH_GT" -> "BRANCH_GREATER"
      [] type = "TOK_BRANCH_GE" -> "BRANCH_GREATER_EQUAL"
      [] type = "TOK_BRANCH_LT" -> "BRANCH_LESS"
      [] type = "TOK_BRANCH_LE" -> "BRANCH_LESS_EQUAL"

ImmFlag(slot) == IF slot = "val_a" THEN "is_a_immediate" ELSE "is_b_immediate"

\* the operand parsers of a shape, left to right, stopping at the first that
\* fails (the || chain of a case): [ok, ps, c]
RECURSIVE ParseOperands(_, _, _)
ParseOperands(ps, c, shape) ==
    IF shape = <<>> THEN [ok |-> TRUE, ps |-> ps, c |-> c]
    ELSE LET s == Head(shape)
             imm == IF s.slot = "destination" THEN FALSE ELSE c[ImmFlag(s.slot)]
             Written(r) ==
                 IF s.slot = "destination" THEN [c EXCEPT ![s.slot] = r.op]
                 ELSE [c EXCEPT ![s.slot] = r.op, ![ImmFlag(s.slot)] = r.imm]
             Rest(r) ==
                 IF ~r.ok THEN [ok |-> FALSE, ps |-> r.ps, c |-> Written(r)]
                 ELSE ParseOperands(r.ps, Written(r), Tail(shape))
         IN  CASE s.p = "var"  -> Rest(parse_variable_operand(ps, c[s.slot], imm))
               [] s.p = "im"   -> Rest(parse_im(ps, c[s.slot], imm))
               [] s.p = "voi"  -> Rest(parse_var_or_imm(ps, c[s.slot], imm))
               [] s.p = "base" -> Rest(parse_base(ps, c[s.slot], imm))

\* free(command_ptr), had_error = true, return NULL
ParseError(ps, ptr) ==
    [ps |-> [ps EXCEPT !.had_error = TRUE, !.freed = @ \cup {ptr}], ret |-> NULL]

\* the command is stored and returned
ParseDone(ps, ptr, c) == [ps |-> [ps EXCEPT !.cmds[ptr] = c], ret |-> ptr]

\* the cases ADD .. LOAD and PRINT: the operands, then the end of the line
ParseShaped(ps, ptr, token) ==
    LET Ended(r) ==
            IF ~r.ok \/ ~EndOfLine(r.ps) THEN ParseError(r.ps, ptr)
            ELSE ParseDone(r.ps, ptr,
                     [r.c EXCEPT !.type = CommandOf(token.type),
                                 !.is_a_immediate =
                                     IF token.type = "TOK_MOV" THEN TRUE ELSE @])
    IN  Ended(ParseOperands(ps, ps.cmds[ptr], Shape(token.type)))

\* case TOK_PUT
ParsePut(ps, ptr) ==
    LET input == Cur(ps)
        c == ps.cmds[ptr]
        Ended(r) ==
            IF ~r.ok \/ input.type # "TOK_STR" THEN ParseError(r.ps, ptr)
            ELSE ParseDone(r.ps, ptr,
                     [c EXCEPT !.type = "CMD_PUT",
                               !.val_a = r.op,
                               !.is_a_immediate = r.imm,
                               !.val_b = StrOperand(input.lexeme)])
    IN  Ended(parse_var_or_imm(advance(ps), c.val_a, c.is_a_immediate))

\* the cases TOK_BRANCH .. TOK_BRANCH_NEQ
ParseBranch(ps, ptr, type) ==
    LET token == Cur(ps)
        ps1 == advance(ps)
    IN  IF ~EndOfLine(ps1) THEN ParseError(ps1, ptr)
        ELSE ParseDone(ps1, ptr,
                 [ps.cmds[ptr] EXCEPT !.type = "CMD_BRANCH",
                                      !.branch_condition = ConditionOf(type),
                                      !.destination = StrOperand(token.lexeme)])

\* case TOK_CALL
ParseCall(ps, ptr) ==
    LET token == Cur(ps)
        lineEnds == Nxt(ps).type \in {"TOK_NL", "TOK_EOF"}
    IN  IF ~lineEnds \/ token.type # "TOK_IDENT"
        THEN ParseError(IF ~lineEnds THEN advance(ps) ELSE ps, ptr)
        ELSE ParseDone(advance(ps), ptr,
                 [ps.cmds[ptr] EXCEPT !.type = "CMD_CALL",
                                      !.destination = StrOperand(token.lexeme)])

\* case TOK_RET
ParseRet(ps, ptr, token) ==
    IF ~EndOfLine(ps) THEN ParseError(ps, ptr)
    ELSE ParseDone(advance(ps), ptr,
             [ps.cmds[ptr] EXCEPT !.type = "CMD_RET",
                                  !.destination = StrOperand(token.lexeme)])

\* the switch on the mnemonic; its default case frees the command and
\* returns the pointer to it all the same
ParseInstruction(ps, ptr, token) ==
    CASE token.type \in ShapedTokens -> ParseShaped(ps, ptr, token)
      [] token.type = "TOK_PUT"      -> ParsePut(ps, ptr)
      [] token.type \in BranchTokens -> ParseBranch(ps, ptr, token.type)
      [] token.type = "TOK_CALL"     -> ParseCall(ps, ptr)
      [] token.type = "TOK_RET"      -> ParseRet(ps, ptr, token)
      [] OTHER -> [ps |-> [ps EXCEPT !.had_error = TRUE,
                                     !.freed = @ \cup {ptr}],
                   ret |-> ptr]

\* the parser after the newlines at its current token are skipped
RECURSIVE SkipNewlines(_)
SkipNewlines(ps) ==
    IF Cur(ps).type = "TOK_NL" THEN SkipNewlines(advance(ps)) ELSE ps

\* a terminator whose second operand is left a register
TerminatorRegisterB(c) ==
    [c EXCEPT !.destination = NumOperand(Zero64), !.val_a = NumOperand(Zero64)]

\* the command of a label at the end of the file (lines 397-399): the
\* CMD_ADD that create_command gave, turned into x0 = x0 + 0
Terminator(c) ==
    [c EXCEPT !.is_b_immediate = TRUE,
              !.destination = NumOperand(Zero64),
              !.val_a = NumOperand(Zero64)]

\* the label in front of an instruction: registered against the command
\* before the instruction is parsed
ParseLabel(ps, ptr, token) ==
    LET ps1 == [ps EXCEPT
                  !.had_error = @ \/ Cur(ps).type # "TOK_COLON",
                  !.label_map = put_label(@, token.lexeme, ptr),
                  !.decls = Append(@, [id |-> token.lexeme, command |-> ptr])]
        ps2 == SkipNewlines(advance(ps1))
    IN  IF ~is_at_end(ps2)
        THEN ParseInstruction(advance(ps2), ptr, Cur(ps2))
        ELSE ParseDone(ps2, ptr, Terminator(ps2.cmds[ptr]))

\* parse_cmd: [ps, ret], the parser after the call and the pointer returned
parse_cmd(ps) ==
    LET token == Cur(ps)
        ps1 == advance(ps)
    IN  IF token.type \in {"TOK_NL", "TOK_EOF"}
        THEN [ps |-> consume_newline(ps1).ps, ret |-> NULL]
        ELSE LET ptr == Len(ps1.cmds) + 1
                 ps2 == [ps1 EXCEPT !.cmds = Append(@, create_command("CMD_ADD"))]
             IN  IF token.type = "TOK_IDENT" THEN ParseLabel(ps2, ptr, token)
                 ELSE ParseInstruction(ps2, ptr, token)

(***************************************************************************)
(* parse_commands, one action for each call of parse_cmd together with the *)
(* loop tests that follow the call.                                        *)
(***************************************************************************)
ParserState ==
    [pos |-> pos, had_error |-> p_had_error, label_map |-> label_map,
     cmds |-> cmds, freed |-> freed, decls |-> decls]

\* the parser's fields and the heap become those of ps, the heap with link
\* written to the next field of command at (at = NULL: no link written)
SetParser(ps, at, link) ==
    /\ pos' = ps.pos
    /\ p_had_error' = ps.had_error
    /\ label_map' = ps.label_map
    /\ cmds' = IF at = NULL THEN ps.cmds ELSE [ps.cmds EXCEPT ![at].next = link]
    /\ freed' = ps.freed
    /\ decls' = ps.decls

\* the test of the loops at lines 821 and 827
MoreToParse(ps) == ~is_at_end(ps) /\ ~ps.had_error

interp_vars == <<i_had_error, is_greater, is_equal, is_less, variables,
                 the_stack, current, mem, output, str_freed, calls, st_freed,
                 nsteps,
                 prev>>

\* lines 819-826: the calls that look for the first command
ParseFirst ==
    /\ phase \in {"parse_first", "parse_skip"}
    /\ LET Returned(r) ==
               /\ SetParser(r.ps, NULL, NULL)
               /\ IF r.ret = NULL /\ MoreToParse(r.ps)
                  THEN /\ phase' = "parse_skip"
                       /\ UNCHANGED <<command_ptr, ret_cmd>>
                  ELSE /\ command_ptr' = r.ret
                       /\ ret_cmd' = r.ret
                       /\ phase' = IF MoreToParse(r.ps) THEN "parse_next"
                                   ELSE "parsed"
       IN  Returned(parse_cmd(ParserState))
    /\ UNCHANGED <<toks, interp_vars>>

\* lines 827-835: the calls that append the later commands
ParseNext ==
    /\ phase = "parse_next"
    /\ LET Returned(r) ==
               /\ IF r.ret # NULL
                  THEN /\ SetParser(r.ps, command_ptr, r.ret)
                       /\ command_ptr' = r.ret
                  ELSE /\ SetParser(r.ps, NULL, NULL)
                       /\ UNCHANGED command_ptr
               /\ phase' = IF MoreToParse(r.ps) THEN "parse_next" ELSE "parsed"
       IN  Returned(parse_cmd(ParserState))
    /\ UNCHANGED <<toks, ret_cmd, interp_vars>>

(***************************************************************************)
(* The byte memory (mem.c is not part of the sources; its contract is the  *)
(* one the interpreter relies on: an access fails, and does nothing, when  *)
(* address + length exceeds the memory size or overflows).                 *)
(***************************************************************************)
\* whether length bytes at address lie in the memory (both unsigned long)
MemInBounds(address, length) == ToNat(address) + ToNat(length) <= MemSize

\* mem_store: the memory after bytes (a tuple) are written at address a
mem_store(m, bytes, a) ==
    [x \in 0..(MemSize - 1) |->
        IF a <= x /\ x < a + Len(bytes) THEN bytes[x - a + 1] ELSE m[x]]

\* mem_load: the n bytes at address a
mem_load(m, a, n) == [j \in 1..n |-> m[a + j - 1]]

(***************************************************************************)
(* The interpreter (part_000).                                             *)
(***************************************************************************)
Cmd == cmds[current]

\* a loop test that does not look at had_error
RunningPastError ==
    /\ phase = "run"
    /\ current # NULL
    /\ nsteps < MaxSteps

\* the test of the loop at line 42 (and the bound of the model on the run)
Running ==
    /\ phase = "run"
    /\ current # NULL
    /\ ~i_had_error
    /\ nsteps < MaxSteps

\* an operand's num_val used as an index of intr->variables
RegIndex(op) == ToNat(op.num_val)
RegValue(op) == variables[RegIndex(op)]

\* the value of operand a / b: the immediate or the register
ValueA(c) == IF c.is_a_immediate THEN c.val_a.num_val ELSE RegValue(c.val_a)
ValueB(c) == IF c.is_b_immediate THEN c.val_b.num_val ELSE RegValue(c.val_b)

\* a command has executed (the histories of the model)
Stepped ==
    /\ nsteps' = nsteps + 1
    /\ prev' = current

\* what stays as it is when a command executes
run_frame == <<toks, phase, parser_vars>>

SetReg(r, w) == variables' = [variables EXCEPT ![r] = w]

\* a comparison that sets the flag of its result and clears no other
FlagsOfNoClear(r) ==
    IF r = 1 THEN <<TRUE, is_equal, is_less>>
    ELSE IF r = -1 THEN <<is_greater, is_equal, TRUE>>
    ELSE <<is_greater, TRUE, is_less>>

\* the flags after a comparison that gave r (1: greater, -1: less, 0: equal),
\* as <<is_greater, is_equal, is_less>>
FlagsOf(r) ==
    IF r = 1 THEN <<TRUE, FALSE, FALSE>>
    ELSE IF r = -1 THEN <<FALSE, FALSE, TRUE>>
    ELSE <<FALSE, TRUE, FALSE>>

\* a condition that takes NOT_EQUAL for "greater or less"
BranchTakenNeqByFlags(cond, g, e, l) ==
    \/ cond = "BRANCH_EQUAL" /\ e /\ ~g /\ ~l
    \/ cond = "BRANCH_GREATER" /\ g /\ ~e
    \/ cond = "BRANCH_GREATER_EQUAL" /\ (g \/ e)
    \/ cond = "BRANCH_LESS" /\ l /\ ~e
    \/ cond = "BRANCH_LESS_EQUAL" /\ (l \/ e)
    \/ cond = "BRANCH_NOT_EQUAL" /\ (g \/ l)
    \/ cond = "BRANCH_NONE"

\* the condition of CMD_BRANCH at lines 264-270
BranchTaken(cond, g, e, l) ==
    \/ cond = "BRANCH_EQUAL" /\ e /\ ~g /\ ~l
    \/ cond = "BRANCH_GREATER" /\ g /\ ~e
    \/ cond = "BRANCH_GREATER_EQUAL" /\ (g \/ e)
    \/ cond = "BRANCH_LESS" /\ l /\ ~e
    \/ cond = "BRANCH_LESS_EQUAL" /\ (l \/ e)
    \/ cond = "BRANCH_NOT_EQUAL" /\ ~e
    \/ cond = "BRANCH_NONE"

\* a lookup that takes the head of the bucket without walking the chain
WalkChainHead(chain, id) == chain[1]

\* the walk along a chain at lines 281-285 and 329-333: the first entry
\* whose id is id, the last entry of the chain when there is none
WalkChain(chain, id) ==
    LET hits == {i \in 1..Len(chain) : chain[i].id = id}
    IN  IF hits = {} THEN chain[Len(chain)]
        ELSE chain[CHOOSE i \in hits : \A j \in hits : i <= j]

\* byte j (from 0) of the memory image that starts at register r: the
\* register it lies in and its place there
ImageReg(r, j) == r + (j \div 8)
ImageByte(j) == (j % 8) + 1

\* an image read most significant byte first
RegImageBigEndian(vs, r, n, fill) ==
    [j \in 1..n |-> IF ImageReg(r, j - 1) < NUM_VARIABLES
                    THEN vs[ImageReg(r, j - 1)][9 - ImageByte(j - 1)]
                    ELSE fill]

\* the n bytes of the image of intr->variables that starts at register r;
\* fill stands for the bytes that lie behind the array
RegImage(vs, r, n, fill) ==
    [j \in 1..n |-> IF ImageReg(r, j - 1) < NUM_VARIABLES
                    THEN vs[ImageReg(r, j - 1)][ImageByte(j - 1)]
                    ELSE fill]

\* intr->variables after bytes are written to the image that starts at
\* register r (the bytes behind the array are not part of it)
WriteImage(vs, r, bytes) ==
    [q \in 0..(NUM_VARIABLES - 1) |->
        LET b(i) == LET j == 8 * (q - r) + (i - 1)
                    IN  IF 0 <= j /\ j < Len(bytes) THEN bytes[j + 1] ELSE vs[q][i]
        IN  Image(b)]

\* whether n bytes of the image that starts at register r reach behind the array
BehindArray(r, n) == n > 0 /\ ImageReg(r, n - 1) >= NUM_VARIABLES

\* the bytes an out-of-bounds read may give
UBBytes == {0, 255}

ExecMov ==
    /\ Running /\ Cmd.type = "CMD_MOV"
    /\ SetReg(RegIndex(Cmd.destination), Cmd.val_a.num_val)
    /\ current' = Cmd.next
    /\ Stepped
    /\ UNCHANGED <<run_frame, i_had_error, is_greater, is_equal, is_less,
                   the_stack, mem, output, str_freed, calls, st_freed>>

\* whether num_1 + num_2 and num_1 - num_2 leave the range of int64_t
AddOverflows(a, b) == IsNegW(a) = IsNegW(b) /\ IsNegW(AddW(a, b)) # IsNegW(a)
SubOverflows(a, b) == IsNegW(a) # IsNegW(b) /\ IsNegW(SubW(a, b)) # IsNegW(a)

\* The destination gets the result w of an operation on int64_t values.
\* When the operation overflows the behaviour is undefined: the result
\* wraps, or the run is aborted (a build that traps on signed overflow).
SignedResult(dst, w, over) ==
    \E outcome \in (IF over THEN {"run", "crashed"} ELSE {"run"}) :
        /\ phase' = outcome
        /\ IF outcome = "crashed"
           THEN UNCHANGED <<variables, current>>
           ELSE /\ SetReg(dst, w)
                /\ current' = Cmd.next

ExecAdd ==
    /\ Running /\ Cmd.type = "CMD_ADD"
    /\ SignedResult(RegIndex(Cmd.destination),
                    AddW(RegValue(Cmd.val_a), ValueB(Cmd)),
                    AddOverflows(RegValue(Cmd.val_a), ValueB(Cmd)))
    /\ Stepped
    /\ UNCHANGED <<toks, parser_vars, i_had_error, is_greater, is_equal, is_less,
                   the_stack, mem, output, str_freed, calls, st_freed>>

ExecSub ==
    /\ Running /\ Cmd.type = "CMD_SUB"
    /\ SignedResult(RegIndex(Cmd.destination),
                    SubW(RegValue(Cmd.val_a), ValueB(Cmd)),
                    SubOverflows(RegValue(Cmd.val_a), ValueB(Cmd)))
    /\ Stepped
    /\ UNCHANGED <<toks, parser_vars, i_had_error, is_greater, is_equal, is_less,
                   the_stack, mem, output, str_freed, calls, st_freed>>

ExecCmp ==
    /\ Running /\ Cmd.type = "CMD_CMP"
    /\ LET f == FlagsOf(CmpS(RegValue(Cmd.destination), ValueA(Cmd)))
       IN  /\ is_greater' = f[1]
           /\ is_equal' = f[2]
           /\ is_less' = f[3]
    /\ current' = Cmd.next
    /\ Stepped
    /\ UNCHANGED <<run_frame, i_had_error, variables, the_stack, mem, output,
                   str_freed, calls, st_freed>>

ExecCmpU ==
    /\ Running /\ Cmd.type = "CMD_CMP_U"
    /\ LET f == FlagsOf(CmpU(RegValue(Cmd.destination), ValueA(Cmd)))
       IN  /\ is_greater' = f[1]
           /\ is_equal' = f[2]
           /\ is_less' = f[3]
    /\ current' = Cmd.next
    /\ Stepped
    /\ UNCHANGED <<run_frame, i_had_error, variables, the_stack, mem, output,
                   str_freed, calls, st_freed>>

ExecAnd ==
    /\ Running /\ Cmd.type = "CMD_AND"
    /\ SetReg(RegIndex(Cmd.destination),
              AndW(RegValue(Cmd.val_a), RegValue(Cmd.val_b)))
    /\ current' = Cmd.next
    /\ Stepped
    /\ UNCHANGED <<run_frame, i_had_error, is_greater, is_equal, is_less,
                   the_stack, mem, output, str_freed, calls, st_freed>>

ExecEor ==
    /\ Running /\ Cmd.type = "CMD_EOR"
    /\ SetReg(RegIndex(Cmd.destination),
              XorW(RegValue(Cmd.val_a), RegValue(Cmd.val_b)))
    /\ current' = Cmd.next
    /\ Stepped
    /\ UNCHANGED <<run_frame, i_had_error, is_greater, is_equal, is_less,
                   the_stack, mem, output, str_freed, calls, st_freed>>

ExecOrr ==
    /\ Running /\ Cmd.type = "CMD_ORR"
    /\ SetReg(RegIndex(Cmd.destination),
              OrW(RegValue(Cmd.val_a), RegValue(Cmd.val_b)))
    /\ current' = Cmd.next
    /\ Stepped
    /\ UNCHANGED <<run_frame, i_had_error, is_greater, is_equal, is_less,
                   the_stack, mem, output, str_freed, calls, st_freed>>

\* The results a shift of a 64-bit value by count may give.  A count of 64
\* or more is undefined in C: the machine's shift uses the count modulo 64,
\* a shift folded by the compiler shifts everything out.
AllOnes64 == <<255, 255, 255, 255, 255, 255, 255, 255>>
ShiftResults(kind, a, count) ==
    LET k == ToNat(count)
        sh(n) == CASE kind = "CMD_ASR" -> SarW(a, n)
                   [] kind = "CMD_LSL" -> ShlW(a, n)
                   [] kind = "CMD_LSR" -> ShrW(a, n)
    IN  IF k < 64 THEN {sh(k)}
        ELSE {sh(count[1] % 64),
              IF kind = "CMD_ASR" /\ IsNegW(a) THEN AllOnes64 ELSE Zero64}

\* whether the shift is undefined in C with an outcome that depends on the
\* build: a count of 64 or more.  (A left shift by less than 64 gives the
\* shifted bit pattern on every build, also when the int64_t is negative or
\* bits are shifted out: here, and in 1LL << i of print_base.)
ShiftUndefined(kind, a, count) == ToNat(count) >= 64

ExecAsr ==
    /\ Running /\ Cmd.type = "CMD_ASR"
    /\ \E w \in ShiftResults("CMD_ASR", RegValue(Cmd.val_a), Cmd.val_b.num_val) :
           SignedResult(RegIndex(Cmd.destination), w,
               ShiftUndefined("CMD_ASR", RegValue(Cmd.val_a), Cmd.val_b.num_val))
    /\ Stepped
    /\ UNCHANGED <<toks, parser_vars, i_had_error, is_greater, is_equal, is_less,
                   the_stack, mem, output, str_freed, calls, st_freed>>

ExecLsl ==
    /\ Running /\ Cmd.type = "CMD_LSL"
    /\ \E w \in ShiftResults("CMD_LSL", RegValue(Cmd.val_a), Cmd.val_b.num_val) :
           SignedResult(RegIndex(Cmd.destination), w,
               ShiftUndefined("CMD_LSL", RegValue(Cmd.val_a), Cmd.val_b.num_val))
    /\ Stepped
    /\ UNCHANGED <<toks, parser_vars, i_had_error, is_greater, is_equal, is_less,
                   the_stack, mem, output, str_freed, calls, st_freed>>

ExecLsr ==
    /\ Running /\ Cmd.type = "CMD_LSR"
    /\ \E w \in ShiftResults("CMD_LSR", RegValue(Cmd.val_a), Cmd.val_b.num_val) :
           SignedResult(RegIndex(Cmd.destination), w,
               ShiftUndefined("CMD_LSR", RegValue(Cmd.val_a), Cmd.val_b.num_val))
    /\ Stepped
    /\ UNCHANGED <<toks, parser_vars, i_had_error, is_greater, is_equal, is_less,
                   the_stack, mem, output, str_freed, calls, st_freed>>

\* CMD_STORE: numBytesToStore bytes of the image of intr->variables that
\* starts at the destination register go to memory
ExecStore ==
    /\ Running /\ Cmd.type = "CMD_STORE"
    /\ LET numBytesToStore == Cmd.val_b.num_val
           startingMemAddress == ValueA(Cmd)
           dst == RegIndex(Cmd.destination)
       IN  IF MemInBounds(startingMemAddress, numBytesToStore)
           THEN /\ \E fill \in (IF BehindArray(dst, ToNat(numBytesToStore))
                                THEN UBBytes ELSE {0}) :
                       mem' = mem_store(mem,
                                  RegImage(variables, dst, ToNat(numBytesToStore), fill),
                                  ToNat(startingMemAddress))
                /\ UNCHANGED i_had_error
           ELSE /\ i_had_error' = TRUE
                /\ UNCHANGED mem
    /\ current' = Cmd.next
    /\ Stepped
    /\ UNCHANGED <<run_frame, is_greater, is_equal, is_less, variables,
                   the_stack, output, str_freed, calls, st_freed>>

\* an address read from the registers after the destination is zeroed
LoadAddressAfterZeroing(c, vs) ==
    IF c.is_b_immediate THEN c.val_b.num_val
    ELSE [vs EXCEPT ![ToNat(c.destination.num_val)] = Zero64][ToNat(c.val_b.num_val)]

\* the address of a LOAD (lines 219-230): imCopy or valCopy, both read from
\* the registers vs before the destination is zeroed at line 221
LoadAddress(c, vs) ==
    IF c.is_b_immediate THEN c.val_b.num_val ELSE vs[ToNat(c.val_b.num_val)]

\* CMD_LOAD: the destination register is zeroed, then numBytesToLoad bytes
\* of memory go to the image of intr->variables that starts at it.  Line 220
\* reads intr->variables at val_b.num_val whether or not it is a register:
\* behind the array the read is undefined (it gives a value nobody uses, or
\* faults).  Bytes loaded behind the array are undefined as well.
ExecLoad ==
    /\ Running /\ Cmd.type = "CMD_LOAD"
    /\ LET numBytesToLoad == Cmd.val_a.num_val
           dst == RegIndex(Cmd.destination)
           readBehind == RegIndex(Cmd.val_b) >= NUM_VARIABLES
           startingMemAddress == LoadAddress(Cmd, variables)
           zeroed == [variables EXCEPT ![dst] = Zero64]
           inBounds == MemInBounds(startingMemAddress, numBytesToLoad)
           writeBehind == inBounds /\ BehindArray(dst, ToNat(numBytesToLoad))
       IN  \E outcome \in (IF readBehind \/ writeBehind
                           THEN {"run", "crashed"} ELSE {"run"}) :
             /\ phase' = outcome
             /\ IF outcome = "crashed"
                THEN UNCHANGED <<variables, i_had_error, current>>
                ELSE /\ current' = Cmd.next
                     /\ IF inBounds
                        THEN /\ variables' = WriteImage(zeroed, dst,
                                    mem_load(mem, ToNat(startingMemAddress),
                                             ToNat(numBytesToLoad)))
                             /\ UNCHANGED i_had_error
                        ELSE /\ variables' = zeroed
                             /\ i_had_error' = TRUE
    /\ Stepped
    /\ UNCHANGED <<toks, parser_vars, is_greater, is_equal, is_less,
                   the_stack, mem, output, str_freed, calls, st_freed>>

\* the strings a read of a PUT payload may give: the payload, or, once it
\* was freed, whatever the freed block holds
PayloadReads(ptr) ==
    IF ptr \in str_freed THEN {cmds[ptr].val_b.str_val, <<>>}
    ELSE {cmds[ptr].val_b.str_val}

\* the memory after the loop of CMD_PUT at lines 249-256: byte i of bytes
\* (from 0) goes to start + i (modulo 2^64) when that address is in bounds
PutBytes(m, bytes, start) ==
    LET addr(i) == AddW(start, FromNat(i))
        ok(i) == MemInBounds(addr(i), FromNat(1))
    IN  [x \in 0..(MemSize - 1) |->
            LET w == {i \in 0..(Len(bytes) - 1) : ok(i) /\ ToNat(addr(i)) = x}
            IN  IF w = {} THEN m[x] ELSE bytes[(CHOOSE i \in w : TRUE) + 1]]

\* whether a store of that loop fails
PutFails(bytes, start) ==
    \E i \in 0..(Len(bytes) - 1) :
        ~MemInBounds(AddW(start, FromNat(i)), FromNat(1))

\* the bytes of a string, with its terminating NUL
CString(str) == [i \in 1..(Len(str) + 1) |->
                    IF i <= Len(str) THEN Ord(str[i]) ELSE 0]

\* CMD_PUT.  The payload is freed at line 258 every time the command runs:
\* a second run reads a freed block and frees it again, which is undefined
\* (some string is read, or the run aborts).
ExecPut ==
    /\ Running /\ Cmd.type = "CMD_PUT"
    /\ \E strVal \in PayloadReads(current) :
       \E outcome \in (IF current \in str_freed THEN {"run", "crashed"}
                       ELSE {"run"}) :
         /\ phase' = outcome
         /\ IF outcome = "crashed"
            THEN UNCHANGED <<mem, i_had_error, current, str_freed>>
            ELSE /\ mem' = PutBytes(mem, CString(strVal), ValueA(Cmd))
                 /\ i_had_error' = PutFails(CString(strVal), ValueA(Cmd))
                 /\ str_freed' = str_freed \cup {current}
                 /\ current' = Cmd.next
    /\ Stepped
    /\ UNCHANGED <<toks, parser_vars, is_greater, is_equal, is_less,
                   variables, the_stack, output, calls, st_freed>>

(***************************************************************************)
(* print_base: the bytes written to stdout.                                *)
(***************************************************************************)
\* an unsigned 64-bit value divided by 10: the quotient and the remainder
DivMod10(w) ==
    LET rem[i \in 1..9] == IF i = 9 THEN 0 ELSE (rem[i + 1] * 256 + w[i]) % 10
        q(i) == (rem[i + 1] * 256 + w[i]) \div 10
    IN  [q |-> Image(q), r |-> rem[1]]

RECURSIVE UDecimal(_)
UDecimal(w) ==
    IF w = Zero64 THEN <<>>
    ELSE Append(UDecimal(DivMod10(w).q), 48 + DivMod10(w).r)

\* printf("%ld")
DecimalOf(w) ==
    IF w = Zero64 THEN <<48>>
    ELSE IF IsNegW(w) THEN <<45>> \o UDecimal(NegW(w))
    ELSE UDecimal(w)

\* printf("%lx")
HexOf(w) ==
    LET nib(k) == (w[(k \div 2) + 1] \div (IF k % 2 = 0 THEN 1 ELSE 16)) % 16
        set == {k \in 0..15 : nib(k) # 0}
        top == IF set = {} THEN 0 ELSE CHOOSE k \in set : \A j \in set : j <= k
    IN  [i \in 1..(top + 1) |->
            LET v == nib(top + 1 - i) IN IF v < 10 THEN 48 + v ELSE 87 + v]

\* digits of base b that keep the leading zeros
BinaryOfFullWidth(w) == [i \in 1..64 |-> 48 + BitW(w, 64 - i)]

\* the digits of base b (lines 486-501)
BinaryOf(w) ==
    IF w = Zero64 THEN <<48>>
    ELSE LET set == {k \in 0..63 : BitW(w, k) = 1}
             cutoff == CHOOSE k \in set : \A j \in set : j <= k
         IN  [i \in 1..(cutoff + 1) |-> 48 + BitW(w, cutoff + 1 - i)]

\* The loop of base s (lines 505-513) from address a: whether it ends, and
\* the bytes it writes when it does.  A load out of bounds leaves val as it
\* was, so the loop ends only if it comes to a NUL byte of the memory: from an
\* address in the memory, or from one a few bytes below 0 (val is 1 until
\* the address wraps to 0).
StringOf(a) ==
    LET below == IF IsNegW(a) /\ ToNat(NegW(a)) < Huge THEN ToNat(NegW(a)) ELSE 0
        from == IF below > 0 THEN 0 ELSE ToNat(a)
        nuls == {x \in from..(MemSize - 1) : mem[x] = 0}
        nul == CHOOSE x \in nuls : \A y \in nuls : x <= y
    IN  IF from >= MemSize \/ nuls = {}
        THEN [ends |-> FALSE, bytes |-> <<>>]
        ELSE [ends |-> TRUE,
              bytes |-> [i \in 1..below |-> 1]
                        \o [i \in 1..(nul - from) |-> mem[from + i - 1]]]

\* print_base: [ends, bytes]
print_base(c) ==
    LET first_val == ValueA(c)
        base == c.val_b.base
    IN  CASE base = "d" -> [ends |-> TRUE, bytes |-> DecimalOf(first_val) \o <<10>>]
          [] base = "x" -> [ends |-> TRUE,
                            bytes |-> <<48, 120>> \o HexOf(first_val) \o <<10>>]
          [] base = "b" -> [ends |-> TRUE,
                            bytes |-> <<48, 98>> \o BinaryOf(first_val) \o <<10>>]
          [] OTHER -> [ends |-> StringOf(first_val).ends,
                       bytes |-> StringOf(first_val).bytes \o <<10>>]

\* What becomes of the loop of base s when it comes to no NUL byte: it
\* writes a byte every turn until int i overflows, which is undefined.  The
\* loop goes on for ever ("hung"); or i wraps to INT_MIN, the address comes
\* back to the memory from below and the loop ends at a NUL byte there,
\* after more than 2^31 bytes of output ("flooded", addresses below Huge).
StringOverrun(a) ==
    IF ~IsNegW(a) /\ ToNat(a) < Huge /\ \E x \in 0..(MemSize - 1) : mem[x] = 0
    THEN {"hung", "flooded"}
    ELSE {"hung"}

\* CMD_PRINT; a print that does not end leaves the interpreter in its loop
ExecPrint ==
    /\ Running /\ Cmd.type = "CMD_PRINT"
    /\ IF print_base(Cmd).ends
       THEN /\ output' = output \o print_base(Cmd).bytes
            /\ current' = Cmd.next
            /\ UNCHANGED phase
       ELSE /\ phase' \in StringOverrun(ValueA(Cmd))
            /\ UNCHANGED <<output, current>>
    /\ Stepped
    /\ UNCHANGED <<toks, parser_vars, i_had_error, is_greater, is_equal,
                   is_less, variables, the_stack, mem, str_freed, calls, st_freed>>

\* printf("Label not found: %s\n", id)
LabelNotFound(id) ==
    [i \in 1..17 |-> Ord(<<"L", "a", "b", "e", "l", " ", "n", "o", "t", " ",
                           "f", "o", "u", "n", "d", ":", " ">>[i])]
    \o [i \in 1..Len(id) |-> Ord(id[i])] \o <<10>>

\* CMD_BRANCH
ExecBranch ==
    /\ Running /\ Cmd.type = "CMD_BRANCH"
    /\ IF BranchTaken(Cmd.branch_condition, is_greater, is_equal, is_less)
       THEN LET id == Cmd.destination.str_val
                chain == get_label(label_map, id)
                entry == WalkChain(chain, id)
            IN  IF chain[1].id = NullStr
                THEN /\ i_had_error' = TRUE
                     /\ output' = output \o LabelNotFound(id)
                     /\ UNCHANGED current
                ELSE /\ i_had_error' = (entry.command = NULL)
                     /\ current' = entry.command
                     /\ UNCHANGED output
       ELSE /\ current' = Cmd.next
            /\ UNCHANGED <<i_had_error, output>>
    /\ Stepped
    /\ UNCHANGED <<run_frame, is_greater, is_equal, is_less, variables,
                   the_stack, mem, str_freed, calls, st_freed>>

\* the StackEntry blocks are numbered in the order calloc returns them;
\* st_freed[p] counts the calls of free on block p
NewEntry == Len(st_freed) + 1

\* the counts after free is called once on every block of ps
FreeEntries(frees, ps) ==
    [p \in 1..Len(frees) |-> IF p \in ps THEN frees[p] + 1 ELSE frees[p]]

\* CMD_CALL: the entry is pushed at the tail before the label is looked up
ExecCall ==
    /\ Running /\ Cmd.type = "CMD_CALL"
    /\ the_stack' = Append(the_stack,
                           [variables |-> variables, command |-> Cmd.next,
                            at |-> NewEntry])
    /\ st_freed' = Append(st_freed, 0)
    /\ calls' = Append(calls, [variables |-> variables, call |-> current,
                               depth |-> Len(the_stack)])
    /\ LET id == Cmd.destination.str_val
           chain == get_label(label_map, id)
       IN  IF chain[1].command = NULL
           THEN /\ i_had_error' = TRUE
                /\ output' = output \o LabelNotFound(id)
                /\ UNCHANGED current
           ELSE /\ current' = WalkChain(chain, id).command
                /\ UNCHANGED <<i_had_error, output>>
    /\ Stepped
    /\ UNCHANGED <<run_frame, is_greater, is_equal, is_less, variables,
                   mem, str_freed>>

\* a restore whose loop starts at register 0
RestoreWithX0(vs, st) == st.variables

\* the registers after RET restores them from the snapshot st
RestoreRegisters(vs, st) ==
    [r \in 0..(NUM_VARIABLES - 1) |-> IF r >= 1 THEN st.variables[r] ELSE vs[r]]

\* a walk that stops at the head of the list: the oldest entry
HeadEntry(stack) == stack[1]

\* the entry the walks at lines 348-353 and 359-361 stop at: the one whose
\* next is NULL, the tail of the list
TailEntry(stack) == stack[Len(stack)]

\* a RET that goes on with the next command when the stack is empty
RetTargetFallsThrough(stack) ==
    IF stack = <<>> THEN Cmd.next ELSE stack[Len(stack)].command

\* the command RET goes on with: NULL on an empty stack (lines 342-345), the
\* command of the entry at the tail otherwise (lines 354 and 368)
RetTarget(stack) == IF stack = <<>> THEN NULL ELSE TailEntry(stack).command

\* a RET that frees the whole list
FreeWholeStack(stack) == <<>>

\* the stack after the entry at its tail is unlinked and freed (lines
\* 355-356 and 369-375)
FreeTail(stack) == SubSeq(stack, 1, Len(stack) - 1)

\* CMD_RET: the entry at the tail is popped
ExecRet ==
    /\ Running /\ Cmd.type = "CMD_RET"
    /\ current' = RetTarget(the_stack)
    /\ IF the_stack = <<>>
       THEN UNCHANGED <<variables, the_stack, calls, st_freed>>
       ELSE /\ variables' = RestoreRegisters(variables, TailEntry(the_stack))
            /\ the_stack' = FreeTail(the_stack)
            /\ st_freed' = FreeEntries(st_freed, {the_stack[Len(the_stack)].at})
            /\ calls' = SubSeq(calls, 1, Len(calls) - 1)
    /\ Stepped
    /\ UNCHANGED <<run_frame, i_had_error, is_greater, is_equal, is_less,
                   mem, output, str_freed>>

\* a cleanup that leaves out the free of the last entry
CleanupButLast(stack) == {stack[i].at : i \in 1..(Len(stack) - 1)}

\* the blocks the cleanup at lines 390-400 frees: every entry but the last
\* in the loop, the last one at line 399
Cleanup(stack) == {stack[i].at : i \in 1..Len(stack)}

\* lines 390-400: the loop has ended, the entries left on the stack are
\* freed (intr->the_stack keeps pointing at the last of them)
InterpretExit ==
    /\ phase = "run"
    /\ (current = NULL \/ i_had_error)
    /\ phase' = "halt"
    /\ st_freed' = FreeEntries(st_freed, Cleanup(the_stack))
    /\ the_stack' = IF the_stack = <<>> THEN <<>>
                    ELSE <<the_stack[Len(the_stack)]>>
    /\ UNCHANGED <<toks, parser_vars, i_had_error, is_greater, is_equal,
                   is_less, variables, current, mem, output, str_freed,
                   calls, nsteps, prev>>

(***************************************************************************)
(* The driver (not part of the sources): it interprets the sequence only   *)
(* when the parser set no error.                                           *)
(***************************************************************************)
\* interpreter_init (lines 16-31), and the memory zeroed at program start
InterpreterInit ==
    /\ i_had_error = FALSE
    /\ is_greater = FALSE
    /\ is_equal = FALSE
    /\ is_less = FALSE
    /\ the_stack = <<>>
    /\ variables = [r \in 0..(NUM_VARIABLES - 1) |-> Zero64]
    /\ mem = [x \in 0..(MemSize - 1) |-> 0]
    /\ output = <<>>
    /\ str_freed = {}
    /\ calls = <<>>
    /\ st_freed = <<>>
    /\ nsteps = 0
    /\ prev = NULL

Reject ==
    /\ phase = "parsed"
    /\ p_had_error
    /\ phase' = "rejected"
    /\ UNCHANGED <<toks, parser_vars, interp_vars>>

\* interpret, up to the loop (lines 33-40)
StartInterpret ==
    /\ phase = "parsed"
    /\ ~p_had_error
    /\ phase' = IF ret_cmd = NULL THEN "halt" ELSE "run"
    /\ current' = ret_cmd
    /\ UNCHANGED <<toks, parser_vars, i_had_error, is_greater, is_equal,
                   is_less, variables, the_stack, mem, output, str_freed,
                   calls, st_freed, nsteps, prev>>

(***************************************************************************)
(* The programs of the model, as the token streams the lexer yields.       *)
(***************************************************************************)
RECURSIVE DecLex(_)
\* the decimal lexeme of a natural number
DecLex(n) == IF n < 10 THEN <<Digits[n + 1]>>
             ELSE DecLex(n \div 10) \o <<Digits[(n % 10) + 1]>>

X(n) == Ident(<<"x">> \o DecLex(n))
N(n) == Num(DecLex(n))
\* 0x1122334455667788, 0xff and 0b101
NBig == Num(<<"0", "x", "1", "1", "2", "2", "3", "3", "4", "4", "5", "5",
              "6", "6", "7", "7", "8", "8">>)
NHex == Num(<<"0", "x", "f", "f">>)
\* 0x7fffffffffffffff
NMax == Num(<<"0", "x", "7", "f", "f", "f", "f", "f", "f", "f", "f", "f", "f",
              "f", "f", "f", "f", "f">>)
NBin == Num(<<"0", "b", "1", "0", "1">>)

\* label names: ab and ba have the same hash whatever the capacity
Lab == <<"a", "b">>
Lba == <<"b", "a">>
Lc  == <<"c">>
Lg  == <<"g">>
Lzz == <<"z", "z">>
Lf  == <<"f">>
Ldbl == <<"d", "b", "l">>
Lend == <<"e", "n", "d">>
Hi  == Str(<<"h", "i">>)

Label(name) == <<Ident(name), TCOLON>>
BaseD == Ident(<<"d">>)
BaseX == Ident(<<"x">>)
BaseS == Ident(<<"s">>)
\* the lexer gives the lexeme b the mnemonic's token type
BaseB == TBRANCH

RECURSIVE Lines(_)
\* the token stream of a sequence of lines, each ended by a newline
Lines(ls) == IF ls = <<>> THEN <<>> ELSE Head(ls) \o <<TNL>> \o Lines(Tail(ls))
Program(ls) == Lines(ls) \o <<TEOF>>

SeqsUpTo(S, n) == UNION {[1..k -> S] : k \in 0..n}

\* the lines of the generated programs
CoreLines ==
    { <<TMOV, X(1), N(5)>>,
      <<TSUB, X(1), X(1), N(1)>>,
      <<TCMP, X(1), N(1)>>,
      <<TCMP_U, X(1), X(2)>>,
      <<TBEQ, Ident(Lab)>>,
      <<TBGT, Ident(Lba)>>,
      <<TBRANCH, Ident(Lzz)>>,
      <<TCALL, Ident(Lab)>>,
      <<TRET>>,
      Label(Lab) \o <<TADD, X(0), X(1), X(1)>>,
      Label(Lba) \o <<TRET>>,
      Label(Lab),
      <<TSTORE, X(1), N(8), N(8)>>,
      <<TLOAD, X(1), N(8), X(1)>>,
      <<TPUT, Hi, X(1)>>,
      <<TPUT, X(1), Hi>> }

GeneratedPrograms == {Program(ls) : ls \in SeqsUpTo(CoreLines, MaxLines)}

BranchToks == {TBRANCH, TBEQ, TBNEQ, TBGT, TBGE, TBLT, TBLE}

\* a comparison of two values, then a branch over one command
ComparePrograms ==
    { Program(<< <<TMOV, X(1), N(a)>>,
                 <<TMOV, X(2), N(b)>>,
                 <<TSUB, X(1), X(1), X(2)>>,
                 <<c, X(1), o>>,
                 <<br, Ident(Lab)>>,
                 <<TMOV, X(3), N(1)>>,
                 Label(Lab) \o <<TMOV, X(4), N(1)>> >>) :
        a \in {0, 1, 5}, b \in {0, 1}, c \in {TCMP, TCMP_U},
        o \in {X(2), N(0)}, br \in BranchToks }
    \cup
    { Program(<< <<br, Ident(Lab)>>,
                 <<TMOV, X(3), N(1)>>,
                 Label(Lab) \o <<TMOV, X(4), N(1)>> >>) : br \in BranchToks }

\* a value is stored and loaded back
RoundTripPrograms ==
    { Program(<< <<TMOV, X(1), v>>,
                 <<TSUB, X(d[1]), X(z), X(1)>>,
                 <<TSTORE, X(d[1]), N(a), N(n)>>,
                 <<TLOAD, X(d[2]), N(n), N(a)>> >>) :
        v \in {NBig, NHex}, z \in {0, 2}, d \in {<<1, 2>>, <<1, 1>>, <<3, 31>>},
        a \in {0, 3, MemSize - 8}, n \in 1..8 }
    \cup
    { Program(<< <<TMOV, X(1), NBig>>,
                 <<TMOV, X(3), N(a)>>,
                 <<TSTORE, X(1), X(3), N(n)>>,
                 <<TLOAD, X(d), N(n), X(3)>> >>) :
        a \in {0, 4}, n \in {0, 1, 3, 8, 9}, d \in {2, 3} }

\* an access of the memory that fails its bounds check, after commands
\* that wrote registers and memory
FailingAccesses ==
    { <<TSTORE, X(1), N(MemSize - 4), N(8)>>,
      <<TSTORE, X(1), X(2), N(1)>>,
      <<TSTORE, X(1), N(MemSize), N(0)>>,
      <<TLOAD, X(1), N(8), N(MemSize)>>,
      <<TLOAD, X(3), N(2), N(MemSize - 1)>>,
      <<TLOAD, X(1), N(1), X(2)>>,
      <<TPUT, Hi, N(MemSize - 1)>>,
      <<TPUT, Hi, N(MemSize)>>,
      <<TPUT, Hi, X(2)>>,
      <<TPUT, Hi, N(0)>> }

MemoryPrograms ==
    { Program(<< <<TMOV, X(1), NHex>>,
                 <<TSTORE, X(1), N(0), N(8)>>,
                 <<TSUB, X(2), X(2), N(k)>>,
                 f,
                 <<TMOV, X(4), N(1)>>,
                 <<TPRINT, N(0), BaseS>> >>) :
        k \in {0, 1, 2}, f \in FailingAccesses }

\* a branch or a call to a name, in front of three labelled commands
LabelNames == {Lab, Lba, Lc, Lg, Lzz}
LabelPrograms ==
    { Program(<< <<j, Ident(t)>>,
                 <<TMOV, X(3), N(1)>>,
                 Label(l[1]) \o <<TMOV, X(4), N(1)>>,
                 Label(l[2]),
                 <<TMOV, X(5), N(1)>>,
                 Label(l[3]) \o <<TRET>> >>) :
        j \in {TBRANCH, TCALL}, t \in LabelNames,
        l \in {<<Lab, Lba, Lc>>, <<Lba, Lab, Lg>>, <<Lc, Lg, Lab>>,
               <<Lg, Lc, Lzz>>, <<Lab, Lab, Lba>>, <<Lzz, Lab, Lab>>,
               <<Lc, Lab, Lab>>, <<Lab, Lc, Lab>>} }

\* calls and returns
CallPrograms ==
    { \* scenario 5 of the specification
      Program(<< <<TMOV, X(1), N(3)>>, <<TCALL, Ident(Ldbl)>>,
                 <<TPRINT, X(0), BaseD>>, <<TBRANCH, Ident(Lend)>>,
                 Label(Ldbl), <<TADD, X(0), X(1), X(1)>>, <<TRET>>,
                 Label(Lend) >>),
      \* nested calls
      Program(<< <<TMOV, X(1), N(1)>>, <<TCALL, Ident(Lf)>>,
                 <<TPRINT, X(1), BaseD>>, <<TRET>>,
                 Label(Lf) \o <<TMOV, X(1), N(2)>>, <<TCALL, Ident(Lg)>>,
                 <<TMOV, X(0), N(9)>>, <<TRET>>,
                 Label(Lg) \o <<TMOV, X(1), N(3)>>, <<TMOV, X(0), N(7)>>,
                 <<TMOV, X(31), N(4)>>,
                 <<TRET>> >>),
      \* a call in a loop
      Program(<< Label(Lf) \o <<TADD, X(1), X(1), N(1)>>, <<TCALL, Ident(Lg)>>,
                 <<TCMP, X(1), N(2)>>, <<TBLT, Ident(Lf)>>, <<TRET>>,
                 Label(Lg) \o <<TMOV, X(1), N(7)>>, <<TRET>> >>),
      \* a recursion without end
      Program(<< <<TMOV, X(2), N(1)>>,
                 Label(Lf) \o <<TADD, X(2), X(2), X(2)>>,
                 <<TCALL, Ident(Lf)>> >>),
      \* a call of a label that is missing, inside a call
      Program(<< <<TCALL, Ident(Lf)>>, <<TMOV, X(1), N(1)>>,
                 Label(Lf) \o <<TMOV, X(2), N(2)>>, <<TCALL, Ident(Lzz)>>,
                 <<TRET>> >>),
      \* a call that returns, then a call of a label that is missing, both
      \* inside a call
      Program(<< <<TCALL, Ident(Lf)>>, <<TRET>>,
                 Label(Lf) \o <<TCALL, Ident(Lg)>>, <<TCALL, Ident(Lzz)>>,
                 Label(Lg) \o <<TRET>> >>),
      \* a PUT that runs twice
      Program(<< Label(Lf) \o <<TPUT, Hi, X(1)>>, <<TPRINT, X(1), BaseS>>,
                 <<TADD, X(1), X(1), N(3)>>, <<TCMP, X(1), N(6)>>,
                 <<TBLT, Ident(Lf)>> >>) }

\* arithmetic, and its result printed
ArithPrograms ==
    { Program(<< <<TMOV, X(1), v>>,
                 <<TSUB, X(2), X(2), X(1)>>,
                 op,
                 <<TPRINT, X(3), b>> >>) :
        v \in {NBin, NHex},
        op \in { <<TAND, X(3), X(1), X(2)>>, <<TEOR, X(3), X(1), X(2)>>,
                 <<TORR, X(3), X(1), X(2)>>, <<TASR, X(3), X(2), N(3)>>,
                 <<TLSL, X(3), X(1), N(2)>>, <<TLSR, X(3), X(2), N(60)>>,
                 <<TADD, X(3), X(1), N(7)>>, <<TSUB, X(3), X(2), X(1)>> },
        b \in {BaseD, BaseX, BaseB} }

\* additions and subtractions at the ends of the range of int64_t
OverflowPrograms ==
    { Program(<< <<TMOV, X(1), NMax>>,
                 <<TSUB, X(2), X(2), X(1)>>,
                 op,
                 <<TPRINT, X(3), BaseX>> >>) :
        op \in { <<TADD, X(3), X(1), N(1)>>, <<TADD, X(3), X(1), X(1)>>,
                 <<TADD, X(3), X(1), X(2)>>, <<TADD, X(3), X(2), X(2)>>,
                 <<TADD, X(3), X(2), N(0)>>, <<TSUB, X(3), X(2), N(1)>>,
                 <<TSUB, X(3), X(2), N(2)>>, <<TSUB, X(3), X(2), X(1)>>,
                 <<TSUB, X(3), X(1), X(2)>>, <<TSUB, X(1), X(1), X(1)>>,
                 <<TADD, X(1), X(1), X(1)>>, <<TSUB, X(2), X(2), N(5)>> } }

\* shifts of a positive and of a negative value by counts below, at and
\* above the width of the value
ShiftPrograms ==
    { Program(<< <<TMOV, X(1), NBin>>,
                 <<TSUB, X(2), X(2), X(1)>>,
                 <<op, X(3), a, N(k)>>,
                 <<TPRINT, X(3), BaseX>> >>) :
        op \in {TASR, TLSL, TLSR}, a \in {X(1), X(2)}, k \in {1, 63, 64, 65} }

\* values printed in base b: zero, positive and negative ones, immediates
\* and registers
BinaryPrograms ==
    { Program(<< <<TMOV, X(1), NBin>>,
                 <<TSUB, X(2), X(2), X(1)>>,
                 <<TLSL, X(3), X(1), N(2)>>,
                 <<TPRINT, a, BaseB>>,
                 <<TPRINT, X(1), BaseD>> >>) :
        a \in {N(0), N(1), X(0), X(1), X(2), X(3), NMax, NBig} }

\* the scenarios of the specification and lines the parser rejects
OtherPrograms ==
    { Program(<< <<TMOV, X(1), N(0)>>, <<TPUT, X(1), Hi>>,
                 <<TPRINT, X(1), BaseS>> >>),
      Program(<< <<TMOV, X(1), N(0)>>, <<TPUT, Hi, X(1)>>,
                 <<TPRINT, X(1), BaseS>> >>),
      Program(<< <<TMOV, X(1), N(2)>>, <<TPUT, Hi, N(2)>>,
                 <<TPRINT, X(1), BaseS>>, <<TPRINT, N(3), BaseS>> >>),
      Program(<< <<TMOV, X(1), X(2)>> >>),
      Program(<< <<TADD, X(32), X(1), X(2)>> >>),
      Program(<< <<TMOV, X(1), N(5)>>, <<>>, <<TRET>>, <<TMOV, X(1), N(6)>> >>),
      \* every byte of the memory is written, then a string is printed
      Program(<< <<TMOV, X(1), NBig>>, <<TSTORE, X(1), N(0), N(8)>>,
                 <<TSTORE, X(1), N(MemSize - 8), N(8)>>,
                 <<TPRINT, N(0), BaseS>> >>),
      \* a load of nine bytes from a memory whose bytes are all written
      Program(<< <<TMOV, X(1), NBig>>, <<TSTORE, X(1), N(0), N(8)>>,
                 <<TSTORE, X(1), N(MemSize - 8), N(8)>>,
                 <<TLOAD, X(2), N(9), N(0)>>, <<TPRINT, X(3), BaseX>> >>),
      \* a store of nine bytes of a register whose neighbour is not zero
      Program(<< <<TMOV, X(1), NBig>>, <<TMOV, X(2), NHex>>,
                 <<TSTORE, X(1), N(1), N(9)>>, <<TPRINT, N(9), BaseS>> >>),
      \* a load from an immediate address above 31
      Program(<< <<TMOV, X(2), N(7)>>, <<TLOAD, X(1), N(1), N(40)>>,
                 <<TPRINT, X(1), BaseD>> >>),
      <<TMOV, X(1), N(5), TNL, Ident(Lend), TCOLON, TEOF>>,
      <<TBRANCH, Ident(Lend), TNL, Ident(Lend), TCOLON, TEOF>> }

\* register tokens: the first and the last register, and lexemes that name none
RegisterTokens == {X(0), X(31), X(32), X(99), Ident(<<"x", "0", "1">>),
                   Ident(<<"x", "1", "a">>)}

\* a register token in every operand place that takes a register
RegisterLines(r) ==
    { <<TADD, r, X(1), X(2)>>, <<TSUB, X(1), r, X(2)>>, <<TADD, X(1), X(2), r>>,
      <<TMOV, r, N(5)>>, <<TCMP, r, N(1)>>, <<TCMP_U, X(1), r>>,
      <<TAND, r, r, r>>, <<TLSL, X(1), r, N(1)>>,
      <<TSTORE, r, N(0), N(1)>>, <<TSTORE, X(1), r, N(1)>>,
      <<TLOAD, r, N(1), N(0)>>, <<TLOAD, X(1), N(9), r>>,
      <<TPUT, Hi, r>>, <<TPRINT, r, BaseD>> }

RegisterPrograms ==
    { Program(<< <<TMOV, X(31), N(2)>>, l >>) :
        l \in UNION {RegisterLines(r) : r \in RegisterTokens} }

\* lines whose operands do not have the shape of their instruction
WrongShapeLines ==
    { <<TMOV, X(1), X(2)>>, <<TMOV, X(1)>>, <<TMOV>>, <<TMOV, N(1), N(2)>>,
      <<TADD, X(1), N(1), X(2)>>, <<TADD, X(1), X(2)>>, <<TSUB, X(1), X(2), Hi>>,
      <<TCMP, N(1), X(1)>>, <<TCMP_U, X(1)>>,
      <<TAND, X(1), X(2), N(3)>>, <<TEOR, X(1), X(2)>>, <<TORR, N(1), X(2), X(3)>>,
      <<TASR, X(1), X(2), X(3)>>, <<TLSL, X(1), X(2)>>, <<TLSR, X(1), N(2), N(3)>>,
      <<TSTORE, X(1), X(2), X(3)>>, <<TSTORE, X(1), N(0)>>,
      <<TLOAD, X(1), X(2), X(3)>>, <<TLOAD, X(1), N(1)>>,
      <<TPRINT, X(1)>>, <<TPRINT, X(1), N(1)>>, <<TPRINT, BaseD, X(1)>>,
      <<TPUT, Hi>>, <<TPUT, Hi, Hi>>, <<TPUT>>,
      <<TCALL, N(5)>>, <<TCALL, Hi>>, <<TCALL>>, <<TRET, X(1)>> }
    \cup { <<br, N(5)>> : br \in BranchToks }
    \cup { <<br, Hi>> : br \in BranchToks }
    \cup { <<br>> : br \in BranchToks }

\* a line of the wrong shape, first, last or between two lines
WrongShapePrograms ==
    { Program(<<l>>) : l \in WrongShapeLines }
    \cup { Program(<< <<TMOV, X(1), N(1)>>, l, <<>>, <<TMOV, X(2), N(2)>> >>) :
              l \in WrongShapeLines }
    \cup { Program(<< <<TMOV, X(1), N(1)>>, l, <<TMOV, X(2), N(2)>> >>) :
              l \in WrongShapeLines }
    \cup { <<TMOV, X(1), N(1), TNL>> \o l \o <<TEOF>> : l \in WrongShapeLines }

\* lines of the right shape, one of every instruction kind
RightShapeLines ==
    { <<TADD, X(1), X(2), N(3)>>, <<TSUB, X(1), X(2), X(3)>>, <<TMOV, X(1), N(5)>>,
      <<TCMP, X(1), N(1)>>, <<TCMP_U, X(1), X(2)>>, <<TAND, X(1), X(2), X(3)>>,
      <<TEOR, X(1), X(2), X(3)>>, <<TORR, X(1), X(2), X(3)>>,
      <<TASR, X(1), X(2), N(1)>>, <<TLSL, X(1), X(2), N(1)>>,
      <<TLSR, X(1), X(2), N(1)>>, <<TSTORE, X(1), N(0), N(8)>>,
      <<TLOAD, X(1), N(8), N(0)>>, <<TPUT, Hi, X(1)>>, <<TPRINT, X(1), BaseD>>,
      <<TBRANCH, Ident(Lend)>>, <<TBEQ, Ident(Lend)>>, <<TCALL, Ident(Lend)>>,
      <<TRET>> }

\* the tokens that follow the last operand of a line
TrailingTokens ==
    { <<X(3)>>, <<N(1)>>, <<Hi>>, <<TRET>>, <<TMOV, X(2), N(5)>>, Label(Lend) }

TrailingPrograms ==
    { Program(<< <<TMOV, X(4), N(1)>>, l \o t, <<TMOV, X(5), N(2)>> >>) :
        l \in RightShapeLines, t \in TrailingTokens }
    \cup { Program(<< l \o t >>) : l \in RightShapeLines, t \in TrailingTokens }

\* lines that start with a token that is no mnemonic and no label
StrayLines == { <<Ident(Lf)>>, <<Hi>>, <<N(1)>>, <<Ident(Lf), X(1), N(1)>>,
                <<TCOLON>>, <<Ident(Lf), TMOV, X(1), N(1)>> }

StrayPrograms ==
    { Program(<< <<TMOV, X(1), N(1)>>, l, <<TMOV, X(2), N(2)>> >>) :
        l \in StrayLines }
    \cup { Program(<< l, <<TMOV, X(2), N(2)>> >>) : l \in StrayLines }
    \cup { Program(<< l >>) : l \in StrayLines }

\* the lines of the grammar (label? instruction? NL) among the generated ones
GrammarLines == {l \in CoreLines : l[1] # TPUT}
GrammarPrograms == {Program(ls) : ls \in SeqsUpTo(GrammarLines, MaxLines)}

\* blank lines in front of, between and behind instruction lines
BlankPrograms ==
    { <<TEOF>>, <<TNL, TEOF>>, <<TNL, TNL, TEOF>>, <<TNL, TNL, TNL, TEOF>>,
      <<TMOV, X(1), N(5), TEOF>> }
    \cup { a \o <<TMOV, X(1), N(5), TNL>> \o b \o l \o <<TNL>> \o c
            \o <<TSUB, X(3), X(1), X(2)>> \o d \o <<TEOF>> :
              a \in {<<>>, <<TNL>>, <<TNL, TNL>>},
              b \in {<<>>, <<TNL>>, <<TNL, TNL>>},
              l \in {<<TMOV, X(2), N(7)>>, Label(Lab) \o <<TMOV, X(2), N(7)>>,
                      Label(Lab) \o <<TNL, TNL, TMOV, X(2), N(7)>>},
              c \in {<<>>, <<TNL>>},
              d \in {<<>>, <<TNL>>, <<TNL, TNL>>, <<TNL>> \o Label(Lc),
                      <<TNL>> \o Label(Lc) \o <<TNL, TNL>>} }

\* strings printed from addresses in, at the end of, behind and below the
\* memory, the memory holding a NUL behind the address or none
StringPrograms ==
    { Program(<< <<TMOV, X(1), v>>,
                 <<TSTORE, X(1), N(MemSize - 8), N(8)>>,
                 <<TSUB, X(2), X(2), N(k)>>,
                 <<TPRINT, a, BaseS>>,
                 <<TMOV, X(4), N(1)>> >>) :
        v \in {NBig, NHex}, k \in {0, 2},
        a \in {N(0), N(MemSize - 8), N(MemSize - 1), N(MemSize), N(MemSize + 1),
               X(2), X(1)} }

Programs == GeneratedPrograms \cup ComparePrograms \cup RoundTripPrograms
            \cup MemoryPrograms \cup LabelPrograms \cup CallPrograms
            \cup ArithPrograms \cup OtherPrograms \cup RegisterPrograms
            \cup WrongShapePrograms \cup TrailingPrograms \cup StrayPrograms
            \cup GrammarPrograms \cup BlankPrograms \cup StringPrograms
            \cup OverflowPrograms \cup ShiftPrograms \cup BinaryPrograms

(***************************************************************************)
(* The specification.                                                      *)
(***************************************************************************)
\* parser_init and label_map_init, then interpreter_init
Init ==
    /\ toks \in Programs
    /\ phase = "parse_first"
    /\ pos = 1
    /\ p_had_error = FALSE
    /\ label_map = label_map_init
    /\ cmds = <<>>
    /\ freed = {}
    /\ decls = <<>>
    /\ command_ptr = NULL
    /\ ret_cmd = NULL
    /\ current = NULL
    /\ InterpreterInit

Next ==
    \/ ParseFirst
    \/ ParseNext
    \/ Reject
    \/ StartInterpret
    \/ ExecMov
    \/ ExecAdd
    \/ ExecSub
    \/ ExecCmp
    \/ ExecCmpU
    \/ ExecAnd
    \/ ExecEor
    \/ ExecOrr
    \/ ExecAsr
    \/ ExecLsl
    \/ ExecLsr
    \/ ExecStore
    \/ ExecLoad
    \/ ExecPut
    \/ ExecPrint
    \/ ExecBranch
    \/ ExecCall
    \/ ExecRet
    \/ InterpretExit

Spec == Init /\ [][Next]_vars

\* parse_commands is in its loops: the next step is a call of parse_cmd
Parsing == phase \in {"parse_first", "parse_skip", "parse_next"}

\* parse_commands runs its loops without pause: a call of parse_cmd that
\* the loop tests allow is made.  This is weak fairness of the calls,
\* WF_vars(ParseFirst \/ ParseNext), written out with Parsing for their
\* enabling condition (a call is possible in every state of the loops).
FairSpec == Spec /\ ([]<>(~Parsing) \/ []<><<Parsing>>_vars)

(***************************************************************************)
(* Properties.                                                             *)
(***************************************************************************)
Flags == <<is_greater, is_equal, is_less>>
FlagsSet == Cardinality({i \in 1..3 : Flags[i]})

\* the label names the program declares, and the command of the first
\* declaration of a name
Declared(id) == \E i \in 1..Len(decls) : decls[i].id = id
FirstDeclared(id) ==
    decls[CHOOSE i \in 1..Len(decls) :
              decls[i].id = id /\ \A j \in 1..(i - 1) : decls[j].id # id].command

\* the command about to execute is a CALL or a BRANCH that is taken
Jumping ==
    /\ Running
    /\ \/ Cmd.type = "CMD_CALL"
       \/ /\ Cmd.type = "CMD_BRANCH"
          /\ BranchTaken(Cmd.branch_condition, is_greater, is_equal, is_less)
Target == Cmd.destination.str_val

\* the command executed last is of one of the types
Executed(types) == prev # NULL /\ cmds[prev].type \in types

\* C1: at most one of the three comparison flags is true in every state, and
\* exactly one is true right after a CMP or a CMP_U has executed.
C1_FlagsExclusive ==
    /\ [](FlagsSet <= 1)
    /\ [][(Running /\ Cmd.type \in {"CMD_CMP", "CMD_CMP_U"}) => FlagsSet' = 1]_vars

\* C1 (witness): a comparison has just executed, after an earlier command,
\* and left is_less as the one flag set.
C1_AfterCompare ==
    /\ phase = "run"
    /\ Executed({"CMD_CMP", "CMD_CMP_U"})
    /\ nsteps >= 2
    /\ is_less /\ ~is_greater /\ ~is_equal

\* C2: a CALL, or a BRANCH that is taken, whose target name the program
\* never declared sets had_error (so that no further command executes),
\* whatever labels share the bucket of the name.
C2_MissingLabelIsFatal ==
    [][(Jumping /\ ~Declared(Target)) => i_had_error']_vars

\* C3: a CALL, or a BRANCH that is taken, whose target name the program
\* declares sets current to the command parsed at the declaration of the
\* name (the first one), without an error; also when the declaration comes
\* later in the program and when other names share the bucket.
C3_DeclaredLabelResolves ==
    [][(Jumping /\ Declared(Target))
         => (current' = FirstDeclared(Target) /\ ~i_had_error')]_vars

\* C3 (witness): a jump forward has just gone to the command of a label whose
\* entry is not the head of its bucket.
C3_ForwardJumpInSharedBucket ==
    /\ phase = "run"
    /\ Executed({"CMD_BRANCH", "CMD_CALL"})
    /\ Declared(cmds[prev].destination.str_val)
    /\ current = FirstDeclared(cmds[prev].destination.str_val)
    /\ current > prev + 1
    /\ get_label(label_map, cmds[prev].destination.str_val)[1].id
           # cmds[prev].destination.str_val

\* C4: a RET on a stack that is not empty gives x1..x31 the values they had
\* when the matching CALL executed, leaves x0 as it was just before the RET,
\* and sets current to the command that follows the matching CALL.
C4_RetRestoresCaller ==
    [][(Running /\ Cmd.type = "CMD_RET" /\ the_stack # <<>>)
         => /\ \A r \in 1..(NUM_VARIABLES - 1) :
                   variables'[r] = calls[Len(calls)].variables[r]
            /\ variables'[0] = variables[0]
            /\ current' = cmds[calls[Len(calls)].call].next]_vars

\* C4 (witness): a RET has just returned to a caller with x0 set by the
\* callee, and undone the MOV to a register x1..x31 that ran just before it.
C4_ReturnedWithResult ==
    /\ phase = "run"
    /\ Executed({"CMD_RET"})
    /\ current # NULL
    /\ variables[0] # Zero64
    /\ \E p \in 1..Len(cmds) :
           /\ cmds[p].next = prev
           /\ cmds[p].type = "CMD_MOV"
           /\ RegIndex(cmds[p].destination) >= 1
           /\ variables[RegIndex(cmds[p].destination)] # cmds[p].val_a.num_val

\* C5: a CALL whose label is declared makes the stack one entry deeper, a
\* RET on a stack that is not empty makes it one entry less deep, and the
\* depth after that RET is the depth just before the matching CALL.
C5_DepthBalanced ==
    [][/\ (Running /\ Cmd.type = "CMD_CALL" /\ Declared(Target))
            => Len(the_stack') = Len(the_stack) + 1
       /\ (Running /\ Cmd.type = "CMD_RET" /\ the_stack # <<>>)
            => /\ Len(the_stack') = Len(the_stack) - 1
               /\ Len(the_stack') = calls[Len(calls)].depth]_vars

\* C5 (witness): a RET of a nested call has just returned to depth 1.
C5_ReturnedToDepthOne ==
    /\ phase = "run"
    /\ Executed({"CMD_RET"})
    /\ Len(the_stack) = 1
    /\ Len(calls) = 1
    /\ current # NULL

\* C6: a RET on an empty stack sets current to NULL, leaves had_error false
\* and changes no register, no flag and no byte of memory.
C6_RetOnEmptyStackHalts ==
    [][(Running /\ Cmd.type = "CMD_RET" /\ the_stack = <<>>)
         => /\ current' = NULL
            /\ ~i_had_error'
            /\ variables' = variables
            /\ Flags' = Flags
            /\ mem' = mem]_vars

\* C6 (witness): in a program without CALL, a RET that is not the last
\* command has just halted the run, the registers set before it still set.
C6_HaltedByRet ==
    /\ phase = "run"
    /\ Executed({"CMD_RET"})
    /\ \A p \in 1..Len(cmds) : cmds[p].type # "CMD_CALL"
    /\ cmds[prev].next # NULL
    /\ current = NULL
    /\ ~i_had_error
    /\ variables[1] # Zero64

\* the rule of the specification for a branch condition to hold
ConditionHolds(cond, g, e, l) ==
    CASE cond = "BRANCH_EQUAL" -> e
      [] cond = "BRANCH_NOT_EQUAL" -> ~e
      [] cond = "BRANCH_GREATER" -> g
      [] cond = "BRANCH_GREATER_EQUAL" -> g \/ e
      [] cond = "BRANCH_LESS" -> l
      [] cond = "BRANCH_LESS_EQUAL" -> l \/ e
      [] cond = "BRANCH_NONE" -> TRUE

\* C7: a BRANCH looks its label up (and goes to the command of the label when
\* the label is declared) if and only if the rule of its condition holds of
\* the flags; otherwise current becomes the next command and nothing fails.
C7_BranchIffCondition ==
    [][(Running /\ Cmd.type = "CMD_BRANCH")
         => IF ConditionHolds(Cmd.branch_condition, is_greater, is_equal, is_less)
            THEN /\ i_had_error' \/ \E i \in 1..Len(decls) : current' = decls[i].command
                 /\ Declared(Target) => current' = FirstDeclared(Target)
            ELSE current' = Cmd.next /\ ~i_had_error']_vars

\* C7 (witness): a BRANCH on GREATER_EQUAL has just been taken, over the
\* command that follows it, with is_equal the flag set.
C7_TakenOnEqual ==
    /\ phase = "run"
    /\ Executed({"CMD_BRANCH"})
    /\ cmds[prev].branch_condition = "BRANCH_GREATER_EQUAL"
    /\ is_equal
    /\ current # cmds[prev].next
    /\ current = FirstDeclared(cmds[prev].destination.str_val)

\* a token that is an address operand: a number, or a register x0..x31
IsAddress(token) ==
    \/ token.type = "TOK_NUM" /\ parse_number(token).ok
    \/ token.type = "TOK_IDENT" /\ is_variable(token) /\ parse_variable(token).ok

\* C8: the parser accepts a line PUT, address operand, string literal, end
\* of line without setting had_error.
C8_PutAddressThenStringAccepted ==
    [][(/\ phase \in {"parse_first", "parse_skip", "parse_next"}
        /\ ~p_had_error
        /\ TokAt(pos).type = "TOK_PUT"
        /\ IsAddress(TokAt(pos + 1))
        /\ TokAt(pos + 2).type = "TOK_STR"
        /\ TokAt(pos + 3).type \in {"TOK_NL", "TOK_EOF"})
         => ~p_had_error']_vars

\* a value masked to its n low bytes
LowBytes(w, n) == LET b(i) == IF i <= n THEN w[i] ELSE 0 IN Image(b)

AccessFails ==
    /\ Running
    /\ \/ Cmd.type = "CMD_STORE" /\ ~MemInBounds(ValueA(Cmd), Cmd.val_b.num_val)
       \/ Cmd.type = "CMD_LOAD" /\ ~MemInBounds(ValueB(Cmd), Cmd.val_a.num_val)
       \/ /\ Cmd.type = "CMD_PUT"
          /\ current \notin str_freed
          /\ PutFails(CString(Cmd.val_b.str_val), ValueA(Cmd))

\* C10: a STORE, LOAD or PUT whose access fails its bounds check sets
\* had_error and leaves as they are the registers and the bytes of memory
\* that earlier commands wrote (those that are not zero were written).
C10_FailedAccessChangesNothing ==
    [][AccessFails
         => /\ i_had_error'
            /\ \A r \in 0..(NUM_VARIABLES - 1) :
                   variables[r] # Zero64 => variables'[r] = variables[r]
            /\ \A x \in 0..(MemSize - 1) : mem[x] # 0 => mem'[x] = mem[x]]_vars

RECURSIVE Chain(_, _)
\* the commands linked from p through next, n of them at most
Chain(p, n) ==
    IF p = NULL \/ n = 0 THEN <<>> ELSE <<p>> \o Chain(cmds[p].next, n - 1)

\* the sequence parse_commands returns, and whether it has returned
Sequence == Chain(ret_cmd, Len(cmds))
Parsed == phase \notin {"parse_first", "parse_skip", "parse_next"}
Accepted == Parsed /\ ~p_had_error

\* the operands the interpreter takes for registers, by the command's type
RegisterSlots(c) ==
    LET a == IF c.is_a_immediate THEN {} ELSE {c.val_a}
        b == IF c.is_b_immediate THEN {} ELSE {c.val_b}
    IN  CASE c.type \in {"CMD_ADD", "CMD_SUB"} -> {c.destination, c.val_a} \cup b
          [] c.type = "CMD_MOV" -> {c.destination}
          [] c.type \in {"CMD_CMP", "CMD_CMP_U", "CMD_STORE"} -> {c.destination} \cup a
          [] c.type \in {"CMD_AND", "CMD_EOR", "CMD_ORR"} ->
                 {c.destination, c.val_a, c.val_b}
          [] c.type \in {"CMD_ASR", "CMD_LSL", "CMD_LSR"} -> {c.destination, c.val_a}
          [] c.type = "CMD_LOAD" -> {c.destination} \cup b
          [] c.type \in {"CMD_PUT", "CMD_PRINT"} -> a
          [] OTHER -> {}

\* token i of the program is an operand written like a register that names
\* none of x0..x31 (no label declaration, no target of a jump)
BadRegisterAt(i) ==
    /\ i > 1
    /\ is_variable(toks[i]) /\ toks[i].type = "TOK_IDENT"
    /\ ~parse_variable(toks[i]).ok
    /\ toks[i - 1].type \notin BranchTokens \cup {"TOK_CALL", "TOK_NL", "TOK_COLON"}
    /\ toks[i + 1].type # "TOK_COLON"

\* C11: in every command of a sequence the parser returns without error,
\* every operand the command uses as a register holds an index in 0..31; and
\* a program with a register operand such as x32 ends the parse with
\* had_error set.
C11_RegistersInRange ==
    /\ Accepted =>
           \A i \in 1..Len(Sequence) :
               \A op \in RegisterSlots(cmds[Sequence[i]]) : ToNat(op.num_val) <= 31
    /\ (Parsed /\ \E i \in 1..(Len(toks) - 1) : BadRegisterAt(i)) => p_had_error

\* C11 witness: a program was accepted whose last command reads register 31
\* through an operand that may also be an immediate.
C11_Register31Accepted ==
    /\ Accepted
    /\ \E i \in 1..Len(Sequence) :
           LET c == cmds[Sequence[i]]
           IN  /\ c.type = "CMD_LOAD"
               /\ ~c.is_b_immediate
               /\ ToNat(c.val_b.num_val) = 31
               /\ ToNat(c.val_a.num_val) = 9

\* C12: a line whose operand tokens do not match the shape of its instruction
\* (a wrong operand type or a missing operand; MOV with a register as second
\* operand; a branch whose target is a NUM, a STR or the newline) makes the
\* parse end with had_error set.
C12_WrongShapeRejected ==
    (Parsed /\ toks \in WrongShapePrograms) => p_had_error

\* C13: a line that carries a further token between the last operand of its
\* instruction and the NL or EOF that ends it (whatever the instruction, PUT
\* included) makes the parse end with had_error set.
C13_TrailingTokensRejected ==
    (Parsed /\ toks \in TrailingPrograms) => p_had_error

\* C14: the call of parse_cmd that sets had_error adds no command to the
\* sequence parse_commands returns: the sequence holds the commands parsed
\* before the first error and no command of the malformed line or of a
\* later line.
C14_NoCommandAfterError ==
    [][(~p_had_error /\ p_had_error') => Sequence' = Sequence]_vars

\* the program declares the label name more than once
Duplicated(id) == Cardinality({i \in 1..Len(decls) : decls[i].id = id}) > 1

\* C15: a CALL, or a BRANCH that is taken, whose target name is declared
\* more than once goes to the command of the first of the declarations in
\* program order, whatever other labels are in the bucket of the name.
C15_DuplicateResolvesToFirst ==
    [][(Jumping /\ Duplicated(Target)) => current' = FirstDeclared(Target)]_vars

\* C15 witness: a jump has gone to the first of two declarations of its
\* target, which have different commands, in a bucket whose head is the
\* entry of another label.
C15_JumpedToFirstOfTwo ==
    /\ phase = "run"
    /\ Executed({"CMD_BRANCH", "CMD_CALL"})
    /\ LET id == cmds[prev].destination.str_val
       IN  /\ Duplicated(id)
           /\ current = FirstDeclared(id)
           /\ \E i \in 1..Len(decls) : decls[i].id = id /\ decls[i].command # current
           /\ get_label(label_map, id)[1].id # id
           /\ ~i_had_error

\* the program ends with the declaration of a label that no instruction
\* follows, and the command registered for that label
LastToken ==
    CHOOSE k \in 0..Len(toks) :
        /\ k > 0 => toks[k].type \notin {"TOK_NL", "TOK_EOF"}
        /\ \A j \in (k + 1)..Len(toks) : toks[j].type \in {"TOK_NL", "TOK_EOF"}
EndsWithLabel ==
    /\ LastToken > 1
    /\ toks[LastToken].type = "TOK_COLON"
    /\ toks[LastToken - 1].type = "TOK_IDENT"
TerminatorCommand == decls[Len(decls)].command

\* C16: in an accepted program that ends with a label and no instruction,
\* the label is registered against a command that stands last in the
\* sequence; executing that command changes no register, no flag, no byte
\* of the memory, the stack and the output, and ends the loop with
\* had_error false.
C16_TerminatorIsNoOp ==
    /\ []((Accepted /\ EndsWithLabel) =>
             /\ Sequence # <<>>
             /\ Sequence[Len(Sequence)] = TerminatorCommand
             /\ cmds[TerminatorCommand].next = NULL)
    /\ [][(Running /\ EndsWithLabel /\ current = TerminatorCommand) =>
             /\ UNCHANGED <<variables, Flags, mem, output, the_stack, i_had_error>>
             /\ current' = NULL]_vars

\* C16 witness: the interpreter has halted without error after a branch to
\* the label at the end of the file executed the terminator, x0 holding a
\* value other than 0.
C16_HaltedAfterTerminator ==
    /\ phase = "halt"
    /\ Accepted /\ EndsWithLabel
    /\ prev = TerminatorCommand
    /\ variables[0] # Zero64
    /\ ~i_had_error
    /\ output # <<>>

\* C17: every program built from lines of the form label? instruction? NL
\* with well-formed instructions is parsed with had_error false, a line
\* that holds only a label followed by a line that declares another label
\* included.
C17_GrammarProgramsAccepted ==
    (Parsed /\ toks \in GrammarPrograms) => ~p_had_error

\* token i is the mnemonic that starts the instruction of a line
InstructionTypes == ShapedTokens \cup BranchTokens \cup {"TOK_PUT", "TOK_CALL", "TOK_RET"}
LineStart(i) == i = 1 \/ toks[i - 1].type \in {"TOK_NL", "TOK_COLON"}
InstructionAt(i) == toks[i].type \in InstructionTypes /\ LineStart(i)

\* the command type of a mnemonic
TypeOf(type) ==
    CASE type \in ShapedTokens -> CommandOf(type)
      [] type \in BranchTokens -> "CMD_BRANCH"
      [] type = "TOK_PUT" -> "CMD_PUT"
      [] type = "TOK_CALL" -> "CMD_CALL"
      [] type = "TOK_RET" -> "CMD_RET"

RECURSIVE TypesFrom(_)
\* the command types of the instruction lines from token i on, in source
\* order, with the terminator of a label at the end of the file
TypesFrom(i) ==
    IF i > Len(toks) THEN (IF EndsWithLabel THEN <<"CMD_ADD">> ELSE <<>>)
    ELSE IF InstructionAt(i) THEN <<TypeOf(toks[i].type)>> \o TypesFrom(i + 1)
    ELSE TypesFrom(i + 1)

\* C18: for an accepted program the sequence parse_commands returns holds
\* exactly one command for every instruction line, linked through next in
\* source order (and behind them the terminator of a label at the end of
\* the file); blank lines give no command; on the empty sequence of a
\* program without instruction interpret executes nothing.
C18_OneCommandPerLine ==
    /\ Accepted =>
           /\ Len(Sequence) = Len(TypesFrom(1))
           /\ \A k \in 1..Len(Sequence) :
                  /\ cmds[Sequence[k]].type = TypesFrom(1)[k]
                  /\ Sequence[k] \notin freed
                  /\ k > 1 => Sequence[k - 1] < Sequence[k]
    /\ (Accepted /\ Sequence = <<>> /\ phase # "parsed") =>
           /\ phase = "halt"
           /\ nsteps = 0 /\ output = <<>> /\ current = NULL
           /\ \A r \in 0..(NUM_VARIABLES - 1) : variables[r] = Zero64

\* the sequence holds no BRANCH, no CALL and no RET
StraightLine ==
    \A k \in 1..Len(Sequence) :
        cmds[Sequence[k]].type \notin {"CMD_BRANCH", "CMD_CALL", "CMD_RET"}

\* C19: a command that is no taken BRANCH, no CALL and no RET is followed by
\* its next command; a command is executed only while current is not NULL
\* and had_error is false; in a program without BRANCH, CALL and RET the
\* k-th command executed is the k-th of the sequence, and a run of it that
\* ends without error has executed every command once and left current NULL.
C19_ProgramOrder ==
    /\ [][(Running /\ ~Jumping /\ Cmd.type # "CMD_RET" /\ phase' = "run")
             => current' = Cmd.next]_vars
    /\ [][nsteps' # nsteps => (current # NULL /\ ~i_had_error)]_vars
    /\ [][(StraightLine /\ nsteps' # nsteps) => current = Sequence[nsteps + 1]]_vars
    /\ []((phase = "halt" /\ StraightLine /\ ~i_had_error) =>
             /\ current = NULL
             /\ nsteps = Len(Sequence)
             /\ Sequence # <<>> => prev = Sequence[Len(Sequence)])

\* C19 witness: a program of four commands without BRANCH, CALL and RET has
\* run to its end without error, the PRINT that stands last executed last.
C19_StraightLineRunEnded ==
    /\ phase = "halt"
    /\ StraightLine /\ ~i_had_error
    /\ Len(Sequence) = 4
    /\ nsteps = 4
    /\ cmds[prev].type = "CMD_PRINT"
    /\ output # <<>>

\* C20: the execution of every instruction terminates: no command is left
\* in a loop that does not end, a PRINT with base s included, whatever the
\* address (in or outside the memory) and whether or not the memory holds
\* a NUL byte between the address and its end.
C20_EveryInstructionTerminates ==
    [][nsteps' # nsteps => phase' # "hung"]_vars

\* the StackEntry blocks that are allocated and not freed
LiveEntries == {p \in 1..Len(st_freed) : st_freed[p] = 0}

\* C21: every StackEntry a CALL allocates is freed exactly once, by the RET
\* that pops it or by the cleanup at the end of interpret: no block is ever
\* freed twice, while the loop runs the live blocks are those on the stack
\* (one for every CALL that has not returned, a CALL of a missing label
\* included), a RET frees the block at the tail and no other, and once
\* interpret has returned every block has been freed.
C21_StackEntriesFreedOnce ==
    /\ [](\A p \in 1..Len(st_freed) : st_freed[p] <= 1)
    /\ [](phase = "run" =>
             /\ LiveEntries = {the_stack[i].at : i \in 1..Len(the_stack)}
             /\ Cardinality(LiveEntries) = Len(the_stack))
    /\ [](phase = "halt" => LiveEntries = {})
    /\ [][(Running /\ Cmd.type = "CMD_CALL") =>
             /\ Len(st_freed') = Len(st_freed) + 1
             /\ LiveEntries' = LiveEntries \cup {Len(st_freed')}]_vars
    /\ [][(Running /\ Cmd.type = "CMD_RET" /\ the_stack # <<>>) =>
             LiveEntries' = LiveEntries \ {the_stack[Len(the_stack)].at}]_vars

\* C21 witness: interpret has returned after three CALLs, one of which a RET
\* had popped and the last of which had found no label; two entries were
\* still on the stack when the loop ended, and every block is freed once.
C21_HaltedWithEntriesLeft ==
    /\ phase = "halt"
    /\ i_had_error
    /\ Len(st_freed) = 3
    /\ Len(calls) = 2
    /\ \A p \in 1..3 : st_freed[p] = 1

\* C22: the call stack is last in, first out.  A CALL adds its entry behind
\* the entries of the calls that have not returned, which stay as they are;
\* with two or more entries on the stack a RET goes on with the command
\* after the most recent CALL that has not returned, gives x1..x31 the
\* values of that CALL's snapshot, and leaves the older entries on the
\* stack as they are.
C22_StackIsLifo ==
    /\ [](phase = "run" =>
             /\ Len(the_stack) = Len(calls)
             /\ \A i \in 1..Len(calls) :
                    /\ the_stack[i].command = cmds[calls[i].call].next
                    /\ the_stack[i].variables = calls[i].variables)
    /\ [][(Running /\ Cmd.type = "CMD_CALL") =>
             /\ SubSeq(the_stack', 1, Len(the_stack)) = the_stack
             /\ the_stack'[Len(the_stack')].command = Cmd.next
             /\ the_stack'[Len(the_stack')].variables = variables]_vars
    /\ [][(Running /\ Cmd.type = "CMD_RET" /\ Len(the_stack) >= 2) =>
             /\ current' = cmds[calls[Len(calls)].call].next
             /\ \A r \in 1..(NUM_VARIABLES - 1) :
                    variables'[r] = calls[Len(calls)].variables[r]
             /\ the_stack' = SubSeq(the_stack, 1, Len(the_stack) - 1)]_vars

\* C22 witness: the RET of a nested call has just returned into the outer
\* callee: x1 holds the value of the inner CALL's snapshot, which is not the
\* value in the entry of the outer CALL still on the stack, and current is
\* not the command that entry returns to.
C22_InnerCallReturned ==
    /\ phase = "run"
    /\ Executed({"CMD_RET"})
    /\ Len(the_stack) = 1
    /\ current # NULL
    /\ current # the_stack[1].command
    /\ variables[1] # the_stack[1].variables[1]
    /\ variables[1] # Zero64

\* the order of two 64-bit patterns read as unsigned and as signed integers
LessU(a, b) == \E i \in Idx8 : a[i] < b[i] /\ \A j \in (i + 1)..8 : a[j] = b[j]
LessS(a, b) == IF IsNegW(a) # IsNegW(b) THEN IsNegW(a) ELSE LessU(a, b)

\* the second operand of a comparison: the immediate when is_a_immediate is
\* set, R[a] otherwise
Comparand(c) ==
    IF c.is_a_immediate THEN c.val_a.num_val ELSE variables[ToNat(c.val_a.num_val)]

\* C23: CMP sets the flags by the order of R[dst] and its second operand
\* read as signed 64-bit integers, CMP_U by their order read as unsigned
\* 64-bit integers; with R[dst] negative and the second operand not
\* negative CMP sets is_less and CMP_U sets is_greater; the second operand
\* is the immediate when is_a_immediate is set and R[a] otherwise.
C23_SignedAndUnsignedCompare ==
    [][(Running /\ Cmd.type \in {"CMD_CMP", "CMD_CMP_U"}) =>
         LET d == variables[ToNat(Cmd.destination.num_val)]
             o == Comparand(Cmd)
             signed == Cmd.type = "CMD_CMP"
         IN  /\ is_less' = (IF signed THEN LessS(d, o) ELSE LessU(d, o))
             /\ is_greater' = (IF signed THEN LessS(o, d) ELSE LessU(o, d))
             /\ is_equal' = (d = o)
             /\ (IsNegW(d) /\ ~IsNegW(o)) =>
                    (IF signed THEN is_less' ELSE is_greater')]_vars

\* C23 witness: a CMP_U has just compared a register that holds a negative
\* value with a register that holds a positive one, and set is_greater.
C23_NegativeIsGreaterUnsigned ==
    /\ phase = "run"
    /\ Executed({"CMD_CMP_U"})
    /\ ~cmds[prev].is_a_immediate
    /\ IsNegW(variables[ToNat(cmds[prev].destination.num_val)])
    /\ ~IsNegW(Comparand(cmds[prev]))
    /\ Comparand(cmds[prev]) # Zero64
    /\ is_greater /\ ~is_less /\ ~is_equal

\* the value the specification gives the destination of a MOV, an ADD or a
\* SUB: the immediate, and R[a] plus or minus the second operand modulo 2^64
Arithmetic(c) ==
    LET b == IF c.is_b_immediate THEN c.val_b.num_val
             ELSE variables[ToNat(c.val_b.num_val)]
        a == variables[ToNat(c.val_a.num_val)]
    IN  CASE c.type = "CMD_MOV" -> c.val_a.num_val
          [] c.type = "CMD_ADD" -> AddW(a, b)
          [] c.type = "CMD_SUB" -> SubW(a, b)

\* C24: an ADD and a SUB set R[dst] to R[a] plus and minus the second
\* operand (the immediate when is_b_immediate is set, R[b] otherwise)
\* modulo 2^64, so that an overflow wraps; a MOV sets R[dst] to its
\* immediate; no other register changes.
C24_ArithmeticWraps ==
    [][(Running /\ Cmd.type \in {"CMD_MOV", "CMD_ADD", "CMD_SUB"}) =>
         variables' = [variables EXCEPT ![ToNat(Cmd.destination.num_val)] =
                                           Arithmetic(Cmd)]]_vars

\* the result the specification gives a shift of a by k: ASR replicates the
\* sign bit, LSR fills with zeros, LSL gives a * 2^k modulo 2^64
Shifted(type, a, k) ==
    FromBits([j \in 0..63 |->
        CASE type = "CMD_ASR" -> IF j + k <= 63 THEN BitW(a, j + k) ELSE BitW(a, 63)
          [] type = "CMD_LSR" -> IF j + k <= 63 THEN BitW(a, j + k) ELSE 0
          [] type = "CMD_LSL" -> IF j >= k THEN BitW(a, j - k) ELSE 0])

\* C25: for every shift count k the parser accepts as the immediate of an
\* ASR, an LSL or an LSR, counts of 64 and more included, the instruction
\* sets R[dst] to R[a] shifted right by k with the sign bit replicated
\* (ASR), shifted right by k with zeros filled in (LSR), and to
\* R[a] * 2^k modulo 2^64 (LSL).
C25_ShiftsAreDefined ==
    [][(Running /\ Cmd.type \in {"CMD_ASR", "CMD_LSL", "CMD_LSR"}) =>
         variables'[ToNat(Cmd.destination.num_val)] =
             Shifted(Cmd.type, variables[ToNat(Cmd.val_a.num_val)],
                     ToNat(Cmd.val_b.num_val))]_vars

\* the number of bytes a LOAD or a STORE asks the memory to transfer
TransferLength(c) ==
    IF c.type = "CMD_LOAD" THEN ToNat(c.val_a.num_val) ELSE ToNat(c.val_b.num_val)

\* C26: every LOAD and every STORE that executes transfers between 1 and 8
\* bytes; a LOAD changes no register other than its destination, and a
\* LOAD in bounds leaves in the destination the bytes of the memory in its
\* low bytes and zero in the others.
C26_TransfersOneToEightBytes ==
    [][(Running /\ Cmd.type \in {"CMD_LOAD", "CMD_STORE"}) =>
         LET n == TransferLength(Cmd)
             dst == ToNat(Cmd.destination.num_val)
             address == IF Cmd.is_b_immediate THEN Cmd.val_b.num_val
                        ELSE variables[ToNat(Cmd.val_b.num_val)]
         IN  /\ n \in 1..8
             /\ Cmd.type = "CMD_LOAD" =>
                    /\ \A r \in 0..(NUM_VARIABLES - 1) :
                           r # dst => variables'[r] = variables[r]
                    /\ (ToNat(address) + n <= MemSize) =>
                           \A i \in Idx8 :
                               variables'[dst][i] =
                                   IF i <= n THEN mem[ToNat(address) + i - 1] ELSE 0]_vars

\* byte i (from 1, the least significant) of a 64-bit value
LowOrderByte(w, i) == IF i <= 8 THEN w[i] ELSE 0

\* C27: a STORE of N bytes at address A that succeeds sets the bytes
\* A .. A+N-1 of the memory to the N low-order bytes of R[dst], the least
\* significant first, and changes no other byte of the memory, no register
\* and no flag.
C27_StoreWritesExactlyItsBytes ==
    [][(/\ Running /\ Cmd.type = "CMD_STORE"
        /\ ToNat(Cmd.val_b.num_val) + ToNat(ValueA(Cmd)) <= MemSize) =>
         LET n == ToNat(Cmd.val_b.num_val)
             address == ToNat(ValueA(Cmd))
             w == variables[ToNat(Cmd.destination.num_val)]
         IN  /\ \A x \in 0..(MemSize - 1) :
                    mem'[x] = IF address <= x /\ x < address + n
                              THEN LowOrderByte(w, x - address + 1)
                              ELSE mem[x]
             /\ variables' = variables
             /\ Flags' = Flags
             /\ ~i_had_error']_vars

\* C28: every execution of a PUT, the second and later executions of the
\* same command in a loop included, reads a payload that has not been
\* released and writes the bytes of the string and its NUL to the memory
\* (those whose address is in bounds), as the first execution does; the
\* payload is released at most once.
C28_PutPayloadStaysLive ==
    [][(Running /\ Cmd.type = "CMD_PUT") =>
         LET bytes == CString(Cmd.val_b.str_val)
             address == ToNat(ValueA(Cmd))
         IN  /\ current \notin str_freed
             /\ phase' = "run"
             /\ \A i \in 1..Len(bytes) :
                    address + i - 1 < MemSize =>
                        mem'[address + i - 1] = bytes[i]]_vars

\* the operands whose num_val the interpreter uses as an index of
\* intr->variables when it executes command c: those the command takes for
\* registers, and for a LOAD its operand b whether or not it is an
\* immediate (line 220)
IndexedOperands(c) ==
    IF c.type = "CMD_LOAD" THEN {c.destination, c.val_b} ELSE RegisterSlots(c)

\* C29: when a command of an accepted program executes, every index with
\* which it reads or writes the array of the 32 registers is in 0..31,
\* whatever the command and whether its operands are immediates or
\* registers, a LOAD from an immediate address above 31 included.
C29_RegisterIndexInRange ==
    Running => \A op \in IndexedOperands(Cmd) : ToNat(op.num_val) \in 0..31

\* the commands the entries of the label map point at
LabelledCommands ==
    UNION {{label_map[b][i].command : i \in 1..Len(label_map[b])} :
              b \in 0..(Capacity - 1)} \ {NULL}

\* C30: once parse_commands has returned, for every token stream (those
\* that set had_error included), every command reached from the returned
\* pointer through the next links is a live command, one that has not been
\* freed, and so is every command an entry of the label map points at.
C30_ParsedCommandsAreLive ==
    Parsed =>
        /\ \A k \in 1..Len(Sequence) : Sequence[k] \notin freed
        /\ LabelledCommands \cap freed = {}

\* C31: parse_commands terminates on every token stream that ends in EOF.
\* The parser never stands behind the EOF token (advance does not move past
\* it); every call of parse_cmd made while the parser is not at EOF
\* consumes at least one token or sets had_error; and parse_commands
\* returns in the end.
C31_ParserTerminates ==
    /\ [](/\ pos <= Len(toks)
          /\ \A j \in 1..(pos - 1) : toks[j].type # "TOK_EOF")
    /\ [][(Parsing /\ TokAt(pos).type # "TOK_EOF") =>
             (pos' > pos \/ p_had_error')]_vars
    /\ [][Parsing => pos' >= pos]_vars
    /\ <>Parsed

\* C31 witness: parse_commands has returned without error at the EOF of a
\* program of three commands or more, after calls of parse_cmd on blank
\* lines too.
C31_ReturnedAtEof ==
    /\ Parsed /\ ~p_had_error
    /\ pos = Len(toks)
    /\ Len(Sequence) >= 3
    /\ \E j \in 2..Len(toks) :
           toks[j].type = "TOK_NL" /\ toks[j - 1].type = "TOK_NL"

\* C32: a LOAD whose address operand is the register that is also its
\* destination loads the bytes from the address the register held before
\* the instruction, not from address 0: when that address is in bounds
\* the destination holds the bytes of the memory at it.
C32_LoadAddressReadBeforeZeroing ==
    [][(/\ Running /\ Cmd.type = "CMD_LOAD"
        /\ ~Cmd.is_b_immediate
        /\ Cmd.val_b.num_val = Cmd.destination.num_val
        /\ TransferLength(Cmd) \in 1..8
        /\ ToNat(variables[ToNat(Cmd.destination.num_val)]) + TransferLength(Cmd)
               <= MemSize) =>
         LET dst == ToNat(Cmd.destination.num_val)
             address == ToNat(variables[dst])
         IN  /\ \A i \in Idx8 :
                    variables'[dst][i] =
                        IF i <= TransferLength(Cmd) THEN mem[address + i - 1] ELSE 0
             /\ ~i_had_error']_vars

\* C32 witness: a LOAD whose address register is its destination has just
\* loaded, from an address other than 0, a byte that differs from the
\* byte at address 0.
C32_LoadedFromOldAddress ==
    /\ phase = "run"
    /\ Executed({"CMD_LOAD"})
    /\ ~cmds[prev].is_b_immediate
    /\ cmds[prev].val_b.num_val = cmds[prev].destination.num_val
    /\ ~i_had_error
    /\ variables[ToNat(cmds[prev].destination.num_val)][1] # mem[0]
    /\ \E x \in 1..(MemSize - 1) :
           variables[ToNat(cmds[prev].destination.num_val)][1] = mem[x]

\* C33: a PRINT with base b writes 0b, the binary digits of the 64-bit
\* pattern of its operand without a leading zero digit, and a newline: the
\* one digit 0 for the value zero, 64 digits for a negative value, and for
\* a positive value the digits from its highest set bit down; it changes
\* no register, no flag and no byte of the memory.
C33_BinaryPrint ==
    [][(Running /\ Cmd.type = "CMD_PRINT" /\ Cmd.val_b.base = "b") =>
         LET v == Comparand(Cmd)
             n == Len(output') - Len(output) - 3
             d == SubSeq(output', Len(output) + 3, Len(output) + 2 + n)
         IN  /\ n >= 1
             /\ SubSeq(output', 1, Len(output)) = output
             /\ output'[Len(output) + 1] = 48
             /\ output'[Len(output) + 2] = 98
             /\ output'[Len(output')] = 10
             /\ \A i \in 1..n : d[i] \in {48, 49}
             /\ IF v = Zero64 THEN d = <<48>> ELSE d[1] = 49
             /\ IsNegW(v) => n = 64
             /\ \A k \in 0..63 :
                    BitW(v, k) = IF k < n THEN d[n - k] - 48 ELSE 0
             /\ UNCHANGED <<variables, Flags, mem>>]_vars

\* C33 witness: a PRINT with base b has just written the 64 digits of a
\* negative value held in a register, behind 0b and in front of a newline.
C33_NegativePrintedInBinary ==
    /\ phase = "run"
    /\ Executed({"CMD_PRINT"})
    /\ cmds[prev].val_b.base = "b"
    /\ ~cmds[prev].is_a_immediate
    /\ IsNegW(Comparand(cmds[prev]))
    /\ Len(output) = 67
    /\ output[3] = 49 /\ output[66] = 49

====
